---- MODULE Spec2Model ----
(***************************************************************************)
(* Session orchestration plane of ottobot: the session registry and port   *)
(* allocator (SessionManager), the HTTP and chat handlers of the API       *)
(* process, the job handlers of the workers (SessionHandler), the          *)
(* container runtime they drive (ContainerManager) and the message fabric  *)
(* (SessionRouter).                                                        *)
(*                                                                         *)
(* Every handler execution is a task; the tasks of all processes           *)
(* interleave, and the only shared state is the store (Redis keys), the    *)
(* container runtime and the job queue.                                    *)
(***************************************************************************)
EXTENDS Integers, Sequences, FiniteSets, TLC

\* ------------------------------------------------------------------ bounds

MaxSessions == 2      \* sessions ever created (POST /session calls)
NumWorkers == 2       \* worker processes
VncRangeSize == 2     \* ports in the desktop range
McpRangeSize == 2     \* ports in the tool range
MaxTasks == 2         \* handler executions in flight at once, all processes
MaxLeaked == 1        \* desktop port keys still leased to sessions of an earlier run
MaxEvents == 1        \* DELETE requests, chat frames, stalled jobs, faults, SIGTERMs, TTLs
NumProcs == 2         \* processes that load SessionRouter
NumCallbacks == 1     \* callbacks a process may subscribe to the session
MaxMsgs == 2          \* SessionRouter.publish calls
MaxCmds == 2          \* commands in flight on one subscriber connection
NumWriters == 2       \* concurrent callers of addSessionLog for one session
MaxAppends == 5       \* addSessionLog calls for that session
LogCap == 3           \* entries kept by ltrim, for the 1000 of the code
MaxDocCalls == 4      \* calls in one create, get, update sequence
MaxClock == 4         \* seconds the clock runs
MaxRounds == 2        \* execute/reflect rounds of one graph run
ReplayLimit == 2      \* messages replayed on open, for the 50 of the code
MaxChatMsgs == 3      \* inbound frames and published messages on one socket
MaxWaiting == 3       \* jobs waiting in the queue at once
MaxSignals == 2       \* SIGTERM / SIGINT deliveries to one worker process
MaxPrompts == 2       \* process-message jobs of the session
MaxRuns == 2          \* runs of one process-message job, first run included (attempts: 3)
NumBoxes == 2         \* containers the docker daemon may hold
MaxDockerCalls == 3   \* stopContainer / removeContainer calls in a row
MaxUpdates == 2       \* updateSession calls on the session that is deleted

\* ------------------------------------------------------- program constants

vncPortRangeStart == 6080
mcpPortRangeStart == 8080
concurrency == 2
attempts == 3

vncPortRangeEnd == vncPortRangeStart + VncRangeSize - 1
mcpPortRangeEnd == mcpPortRangeStart + McpRangeSize - 1

Sessions == 1..MaxSessions
Workers == 1..NumWorkers
VncPorts == vncPortRangeStart..vncPortRangeEnd
McpPorts == mcpPortRangeStart..mcpPortRangeEnd

\* What a port key leased before this run records as its session.
Earlier == 0 - 1

\* SessionStatus, and the states after which the lifecycle has ended.
SessionStatus == {"initializing", "ready", "running", "terminating", "terminated", "error"}
Terminal == {"terminated", "error"}

\* The value of a session key that does not exist (redis.get returns null).
\* Unset optional fields (containerId, vncPort, mcpPort, workerId) are 0.
NoRec ==
  [status |-> "absent", vncPort |-> 0, mcpPort |-> 0, containerId |-> 0,
   workerId |-> 0, error |-> FALSE]

Exists(r) == r.status # "absent"

\* { ...session, ...updates }
Merge(session, updates) ==
  [f \in DOMAIN session |-> IF f \in DOMAIN updates THEN updates[f] ELSE session[f]]

\* Job priorities given to queue.add: BullMQ serves the lowest number first.
Priority(type) == IF type = "terminate_session" THEN 2 ELSE 1

VARIABLES
  rec,         \* session:<id>            -> the JSON record, NoRec when the key is absent
  index,       \* sessions:index
  byWorker,    \* sessions:by-worker:<wid>
  vncKeys,     \* vnc:port:<p>: 0 when absent, else the session whose request set it
  mcpKeys,     \* mcp:port:<p>: likewise
  containers,  \* the containers the runtime holds
  queue,       \* jobs waiting in the sessions queue
  delayed,     \* failed jobs in their retry backoff
  tasks,       \* handler executions in flight
  agents,      \* SessionHandler.activeAgents of each worker
  timers,      \* pending setTimeout(deleteSession) of each worker
  alive,       \* workers that have not shut down
  created,     \* sessions created so far
  used         \* requests and events so far, against MaxEvents

\* SessionRouter, for one session: one copy of the class in each process, and
\* the store's pub/sub channel session:<id>:messages between them.
VARIABLES
  subscribers,         \* SessionRouter.subscribers of each process: its callbacks
  redisSubscriptions,  \* SessionRouter.redisSubscriptions of each process: has(channel)
  subCmds,             \* commands each subClient has sent and the store has not handled
  listening,           \* store side: the connections subscribed to the channel
  inbox,               \* messages the store has pushed to each subClient, not yet read
  pubCall,             \* the publish call each process is in, 0 when in none
  published,           \* each publish call so far: who called, who was subscribed, result
  log                  \* the messages each callback has been invoked with, in order

\* Expiry of the store's keys, followed where the claims are about it: the
\* session keys' TTLs in StreamSpec, the port keys' leases in LeaseSpec.
VARIABLES
  ttl,       \* TTL of each key of a session, as redis.ttl answers it
  unleased,  \* the port keys that exist without an expiry
  alloc      \* the allocateVncPort / allocateMcpPort call in flight, if any

lifecycle ==
  <<rec, index, byWorker, vncKeys, mcpKeys, containers, queue, delayed,
    tasks, agents, timers, alive, created, used>>

router ==
  <<subscribers, redisSubscriptions, subCmds, listening, inbox, pubCall, published, log>>

expiry == <<ttl, unleased, alloc>>

\* session:logs:<id> of one session whose record is live, and the
\* addSessionLog calls in flight for it.
VARIABLES
  logList,   \* the list, oldest entry first; an entry is the number of its rpush
  logged,    \* rpush commands done so far
  logCalls   \* each caller's position in addSessionLog

logState == <<logList, logged, logCalls>>

\* One session's record as the text the store holds, with a clock, for the
\* sequence createSession, getSession, updateSession, getSession.
VARIABLES
  doc,      \* value of session:<id>: the parsed JSON text, NoDoc when the key is absent
  docTtl,   \* seconds until the key expires, as redis.ttl answers; KeyAbsent when absent
  now,      \* the clock, in seconds
  reads,    \* what the getSession calls made so far have returned
  calls,    \* the calls made so far
  update    \* the updateSession call in flight: where it is, and what it holds

docState == <<doc, docTtl, now, reads, calls, update>>

\* POST /session requests in flight, what each has answered, and the counter
\* metrics:total_sessions.
VARIABLES
  posts,          \* each request: where its handler is, its session and its port
  responses,      \* set.status of each request, 0 while it has not answered
  totalSessions   \* metrics:total_sessions

postState == <<posts, responses, totalSessions>>

\* The worker's createSession from startAgent on, for one session, and what
\* it publishes on the session's channel.
VARIABLES
  feed,        \* the messages published for the session, in publish order
  stage,       \* where createSession is
  agentTask,   \* AgentState.currentTask of the graph run in progress, "" when none
  rounds       \* execute/reflect rounds of that run

feedState == <<feed, stage, agentTask, rounds>>

\* One chat socket of one session, in the API process: the socket, the
\* handlers' promise chains, and what they act on.
VARIABLES
  chatRec,        \* status in the session's record: "unknown" until set, "absent" when no key
  ws,             \* the socket: "none", "open", "closed"
  openCall,       \* the open handler's chain: "none", "lookup", "rejected", "accepted", "replayed"
  frames,         \* the frames sent on the socket, in order
  wsSubscribed,   \* SessionRouter.subscribers holds the socket's callback
  activeSub,      \* activeSubscriptions has the socket
  stored,         \* session:messages:<id>
  replayed,       \* recentMessages, once getSessionMessages has answered
  inbound,        \* the message handler's chain: 0, or the frame whose lookup is pending
  pendingOps,     \* calls the message handler has started and not awaited
  chatJobs,       \* process_message jobs enqueued
  outMsg,         \* a worker's onMessage between its publish and its store: 0 when none
  sent,           \* frames received and messages published so far
  pipeline        \* commands the API process has sent on its store connection, unanswered

chatState ==
  <<chatRec, ws, openCall, frames, wsSubscribed, activeSub, stored, replayed, inbound,
    pendingOps, chatJobs, outMsg, sent, pipeline>>

\* One worker process from its start to its exit: its two keys in the store,
\* its 'ready' handler, its heartbeat and its shutdown() calls.
VARIABLES
  statusKey,          \* value of worker:<id>:status, "absent" when there is no key
  statusTtl,          \* the status key has an expiry
  jobsKey,            \* members of the set worker:<id>:jobs; no members, no key
  jobsTtl,            \* the jobs key has an expiry
  registered,         \* where updateWorkerStatus('active') of the 'ready' handler is
  heartbeatInterval,  \* the heartbeat timer is set
  beat,               \* where the refreshWorkerTTL call in flight is, "idle" when none
  shutdowns,          \* where each shutdown() call is, "none" before its signal
  cursor,             \* entries of activeAgents each cleanup() loop has gone past
  entry,              \* sessionId of the entry each cleanup() loop is at, 0 when none
  closing,            \* worker.close() was called: no further job is taken
  running,            \* sessions whose create_session job is in flight
  activeAgents,       \* SessionHandler.activeAgents, in insertion order
  sessionStatus,      \* status in each session's record
  exited              \* process.exit(0) was called

downState ==
  <<statusKey, statusTtl, jobsKey, jobsTtl, registered, heartbeatInterval, beat, shutdowns,
    cursor, entry, closing, running, activeAgents, sessionStatus, exited>>

\* The docker daemon's containers, and the catch block of one failed
\* createSession run.
VARIABLES
  boxes,         \* state of each container: "absent", "created", "running", "exited"
  dockerCall,    \* the last stopContainer / removeContainer call and how it ended
  dockerCalls,   \* such calls made so far
  catchPc,       \* where the createSession run is: "try", then the steps of its catch block
  mcpPortLocal,  \* the local mcpPort is not null
  caught,        \* the session's record, its two port keys, as the catch block finds them
  attempted,     \* cleanup steps the catch block has called
  propagated     \* what createSession rejected with: "none", "original" or the step that threw

catchState ==
  <<boxes, dockerCall, dockerCalls, catchPc, mcpPortLocal, caught, attempted, propagated>>

\* The store keys of one session id while one deleteSession(id) call and
\* updateSession(id, ...) calls run on them.
VARIABLES
  sessKeys,     \* which of session:<id> and its three derived keys exist
  recWorkerId,  \* workerId in the record, 0 when it has none
  indexed,      \* id is in sessions:index
  workerSets,   \* the workers w with id in sessions:by-worker:<w>
  delCall,      \* the deleteSession call: where it is, and the session it read
  updCall,      \* the updateSession call in flight: where it is, what it read, its patch
  updCalls      \* updateSession calls started so far

keyState == <<sessKeys, recWorkerId, indexed, workerSets, delCall, updCall, updCalls>>

\* The process-message jobs of one session: each run of
\* SessionHandler.processMessage and what reaches the session's channel.
VARIABLES
  msgRecord,   \* session:<id>: "none" before it is created, "present", "gone"
  msgAgent,    \* the session's entry in the worker's activeAgents: "none", "held", "gone"
  channel,     \* the events the jobs' current runs published on the channel, in order
  msgRun       \* each message's run of the handler: where it is, what it threw

msgState == <<msgRecord, msgAgent, channel, msgRun>>

extra ==
  <<logState, docState, postState, feedState, chatState, downState, catchState, keyState,
    msgState>>

\* What the actions of each of these leave alone.
notLog ==
  <<lifecycle, router, expiry, docState, postState, feedState, chatState, downState,
    catchState, keyState, msgState>>
notDoc ==
  <<lifecycle, router, expiry, logState, postState, feedState, chatState, downState,
    catchState, keyState, msgState>>
notPost ==
  <<router, expiry, logState, docState, feedState, chatState, downState,
    catchState, keyState, msgState>>
notFeed ==
  <<lifecycle, router, expiry, logState, docState, postState, chatState, downState,
    catchState, keyState, msgState>>
notChat ==
  <<lifecycle, router, expiry, logState, docState, postState, feedState, downState,
    catchState, keyState, msgState>>
notDown ==
  <<lifecycle, router, expiry, logState, docState, postState, feedState, chatState,
    catchState, keyState, msgState>>
notCatch ==
  <<lifecycle, router, expiry, logState, docState, postState, feedState, chatState,
    downState, keyState, msgState>>
notKeys ==
  <<lifecycle, router, expiry, logState, docState, postState, feedState, chatState,
    downState, catchState, msgState>>

notMsg ==
  <<lifecycle, router, expiry, logState, docState, postState, feedState, chatState,
    downState, catchState, keyState>>

vars == <<lifecycle, router, expiry, extra>>

Procs == 1..NumProcs
Callbacks == 1..NumCallbacks
Msgs == 1..MaxMsgs

store == <<rec, index, byWorker, vncKeys, mcpKeys>>

\* ---------------------------------------------------------------- helpers

\* A job: its data and the attempt it is on (retries after a failure).
Job(type, sid, vncPort, containerId, mcpPort, att) ==
  [type |-> type, sid |-> sid, vncPort |-> vncPort, containerId |-> containerId,
   mcpPort |-> mcpPort, att |-> att]

\* A handler execution: its locals (the job data, the last record read by
\* updateSession), whether it still holds the lock of its job, and what it
\* started from: the status the session had or, for the handler of a 'failed'
\* event, the type of the job that failed.
Task(kind, sid, w, pc, att, vncPort, mcpPort, containerId) ==
  [kind |-> kind, sid |-> sid, w |-> w, pc |-> pc, att |-> att, vncPort |-> vncPort,
   mcpPort |-> mcpPort, containerId |-> containerId, snap |-> NoRec, lock |-> TRUE,
   from |-> "absent"]

JobKinds == {"create_session", "terminate_session", "process_message"}

Replace(t, u) == tasks' = (tasks \ {t}) \cup {u}
Goto(t, pc) == Replace(t, [t EXCEPT !.pc = pc])
Drop(t) == tasks' = tasks \ {t}

CanSpend == used < MaxEvents
Spend == used' = used + 1

\* The lowest port of a range that has no key, 0 when every port has one.
FirstFree(keys, ports) ==
  IF \E p \in ports : keys[p] = 0
  THEN CHOOSE p \in ports : keys[p] = 0 /\ \A q \in ports : q < p => keys[q] # 0
  ELSE 0

\* redis.ttl of a key that does not exist, and of a key that has no expiry.
KeyAbsent == 0 - 2
NoExpiry == 0 - 1

\* session:<id> and the keys derived from it.
DerivedKeys == {"messages", "logs", "context"}
KeyNames == {"record"} \cup DerivedKeys

\* No allocate call is in flight.
NoCall == [range |-> "none", port |-> 0, sid |-> 0, pc |-> "idle"]

\* Callers of addSessionLog: handlers of the session's jobs, on any worker.
LogWriters == 1..NumWriters

LogInit ==
  /\ logList = <<>>
  /\ logged = 0
  /\ logCalls = [c \in LogWriters |-> "idle"]

\* getSession's null, and the absent key.
NoDoc == [null |-> TRUE]

\* No updateSession call is in flight.
NoUpdate == [pc |-> "idle", session |-> NoDoc, ttl |-> 0]

DocInit ==
  /\ doc = NoDoc
  /\ docTtl = KeyAbsent
  /\ now = 0
  /\ reads = <<>>
  /\ calls = <<>>
  /\ update = NoUpdate

\* A POST /session request: not yet received.
Requests == 1..MaxSessions
NoPost == [pc |-> "start", sid |-> 0, vncPort |-> 0]

PostInit ==
  /\ posts = [r \in Requests |-> NoPost]
  /\ responses = [r \in Requests |-> 0]
  /\ totalSessions = 0

FeedInit ==
  /\ feed = <<>>
  /\ stage = "job"
  /\ agentTask = ""
  /\ rounds = 0

ChatInit ==
  /\ chatRec = "unknown"
  /\ ws = "none"
  /\ openCall = "none"
  /\ frames = <<>>
  /\ wsSubscribed = FALSE
  /\ activeSub = FALSE
  /\ stored = <<>>
  /\ replayed = <<>>
  /\ inbound = 0
  /\ pendingOps = {}
  /\ chatJobs = 0
  /\ outMsg = 0
  /\ sent = 0
  /\ pipeline = <<>>

\* The worker was constructed: no key of its own, no job taken, no signal.
DownInit ==
  /\ statusKey = "absent"
  /\ statusTtl = FALSE
  /\ jobsKey = {}
  /\ jobsTtl = FALSE
  /\ registered = "off"
  /\ heartbeatInterval = FALSE
  /\ beat = "idle"
  /\ shutdowns = [r \in 1..MaxSignals |-> "none"]
  /\ cursor = [r \in 1..MaxSignals |-> 0]
  /\ entry = [r \in 1..MaxSignals |-> 0]
  /\ closing = FALSE
  /\ running = {}
  /\ activeAgents = <<>>
  /\ sessionStatus = [sid \in Sessions |-> "initializing"]
  /\ exited = FALSE

\* The daemon holds no container; createSession is in its try block.
NoDockerCall == [op |-> "none", id |-> 0, before |-> "absent", threw |-> FALSE]

CatchInit ==
  /\ boxes = [b \in 1..NumBoxes |-> "absent"]
  /\ dockerCall = NoDockerCall
  /\ dockerCalls = 0
  /\ catchPc = "try"
  /\ mcpPortLocal = FALSE
  /\ caught = [exists |-> TRUE, status |-> "initializing", containerId |-> 0,
               container |-> FALSE, vncKey |-> TRUE, mcpKey |-> FALSE]
  /\ attempted = {}
  /\ propagated = "none"

\* No key of the session exists; no call on it is in flight.
NoDelete == [pc |-> "idle", workerId |-> 0]
NoUpdateCall == [pc |-> "idle", workerId |-> 0, patch |-> 0, ttl |-> FALSE]

KeysInit ==
  /\ sessKeys = [k \in KeyNames |-> FALSE]
  /\ recWorkerId = 0
  /\ indexed = FALSE
  /\ workerSets = {}
  /\ delCall = NoDelete
  /\ updCall = NoUpdateCall
  /\ updCalls = 0

MessageJobs == 1..MaxPrompts
NoRun == [pc |-> "queued", run |-> 1, cause |-> "none", rejected |-> "none"]

MsgInit ==
  /\ msgRecord = "none"
  /\ msgAgent = "none"
  /\ channel = <<>>
  /\ msgRun = [m \in MessageJobs |-> NoRun]

ExtraInit ==
  /\ KeysInit
  /\ LogInit
  /\ DocInit
  /\ PostInit
  /\ FeedInit
  /\ ChatInit
  /\ DownInit
  /\ CatchInit
  /\ MsgInit

\* No session key exists; every port key that exists has its lease.
ExpiryInit ==
  /\ ttl = [s \in Sessions |-> [k \in KeyNames |-> KeyAbsent]]
  /\ unleased = {}
  /\ alloc = NoCall

\* allocateVncPort / allocateMcpPort: the loop from `port` to `end`; setnx
\* succeeds on the first port that has no key, and null (0) is returned when
\* the loop runs out.
RECURSIVE ScanFrom(_, _, _)
ScanFrom(keys, port, end) ==
  IF port > end THEN 0
  ELSE IF keys[port] = 0 THEN port
  ELSE ScanFrom(keys, port + 1, end)

\* for (port = start; port < end; port++): a loop that stops one port early.
AllocateBelowEnd(keys, start, end) == ScanFrom(keys, start, end - 1)

\* for (port = start; port <= end; port++), with no other client of the
\* store acting in between.
AllocatePort(keys, start, end) == ScanFrom(keys, start, end)

\* No process has subscribed or published yet.
RouterInit ==
  /\ subscribers = [p \in Procs |-> {}]
  /\ redisSubscriptions = [p \in Procs |-> FALSE]
  /\ subCmds = [p \in Procs |-> <<>>]
  /\ listening = [p \in Procs |-> FALSE]
  /\ inbox = [p \in Procs |-> <<>>]
  /\ pubCall = [p \in Procs |-> 0]
  /\ published = <<>>
  /\ log = [p \in Procs |-> [c \in Callbacks |-> <<>>]]

Init ==
  /\ RouterInit
  /\ ExpiryInit
  /\ ExtraInit
  /\ rec = [s \in Sessions |-> NoRec]
  /\ index = {}
  /\ byWorker = [w \in Workers |-> {}]
  /\ \E leaked \in 0..MaxLeaked :
       /\ vncKeys = [p \in VncPorts |-> IF p < vncPortRangeStart + leaked THEN Earlier ELSE 0]
       /\ used = leaked
  /\ mcpKeys = [p \in McpPorts |-> 0]
  /\ containers = {}
  /\ queue = {}
  /\ delayed = {}
  /\ tasks = {}
  /\ agents = [w \in Workers |-> {}]
  /\ timers = {}
  /\ alive = [w \in Workers |-> TRUE]
  /\ created = 0

\* ------------------------------------------------- SessionManager (store)

\* SessionManager.createSession: the record, with status initializing, and
\* its entry in sessions:index.
NewSession ==
  [status |-> "initializing", vncPort |-> 0, mcpPort |-> 0, containerId |-> 0,
   workerId |-> 0, error |-> FALSE]

\* SessionManager.updateSession after its read returned `session`: the record
\* is rewritten from that read when the key still has a TTL, and the worker
\* sets follow a changed workerId.
UpdateRecord(sid, session, updates) ==
  IF Exists(rec[sid]) THEN [rec EXCEPT ![sid] = Merge(session, updates)] ELSE rec

UpdateWorkerSets(sid, session, updates) ==
  IF "workerId" \in DOMAIN updates /\ updates.workerId # 0
     /\ updates.workerId # session.workerId
  THEN [w \in Workers |->
          IF w = updates.workerId THEN byWorker[w] \cup {sid}
          ELSE IF w = session.workerId THEN byWorker[w] \ {sid}
          ELSE byWorker[w]]
  ELSE byWorker

UpdateWrite(sid, session, updates) ==
  /\ rec' = UpdateRecord(sid, session, updates)
  /\ byWorker' = UpdateWorkerSets(sid, session, updates)

\* SessionManager.updateSessionStatus builds these updates.
StatusUpdates(status, error) ==
  IF error THEN [status |-> status, error |-> TRUE] ELSE [status |-> status]

\* A deleteSession that removes nothing.
KeepSession(sid) == UNCHANGED <<rec, index, byWorker>>

\* SessionManager.deleteSession: nothing when the record is absent, else the
\* record, its index entry and its worker-set entry go.
DeleteSession(sid) ==
  IF Exists(rec[sid])
  THEN /\ rec' = [rec EXCEPT ![sid] = NoRec]
       /\ index' = index \ {sid}
       /\ byWorker' = [w \in Workers |->
                         IF w = rec[sid].workerId THEN byWorker[w] \ {sid} ELSE byWorker[w]]
  ELSE UNCHANGED <<rec, index, byWorker>>

\* releaseVncPort / releaseMcpPort: del of the key, whoever set it.
ReleasePort(keys, port) ==
  [p \in DOMAIN keys |-> IF p = port THEN 0 ELSE keys[p]]

\* allocateVncPort / allocateMcpPort: the key of the port the scan returns.
ClaimPort(keys, port, sid) ==
  [p \in DOMAIN keys |-> IF p = port THEN sid ELSE keys[p]]

\* ------------------------------------------------------ API: POST /session

\* The whole handler: createSession, allocateVncPort, then either the 503
\* path (deleteSession) or updateSession({vncPort}) and queue.add of the
\* create_session job, whose data carries the desktop port.
Post ==
  /\ created < MaxSessions
  /\ created' = created + 1
  /\ LET sid == created + 1
         port == AllocatePort(vncKeys, vncPortRangeStart, vncPortRangeEnd) IN
       IF port = 0
       THEN UNCHANGED <<rec, index, vncKeys, queue>>
       ELSE /\ rec' = [rec EXCEPT ![sid] = Merge(NewSession, [vncPort |-> port])]
            /\ index' = index \cup {sid}
            /\ vncKeys' = ClaimPort(vncKeys, port, sid)
            /\ queue' = queue \cup {Job("create_session", sid, port, 0, 0, 1)}
  /\ UNCHANGED <<router, extra, expiry, byWorker, mcpKeys, containers, delayed, tasks, agents, timers,
                 alive, used>>

\* ------------------------------------------------ updateSession in a task

\* updateSession is a read of the record followed by a write of the merged
\* record (SessionManager.updateSession, two awaits). Where another handler
\* can act on the same session in between, the two are separate steps of the
\* task, which holds the read in snap; elsewhere UpdateNow does both at once.

\* The updates passed at each such call, by the place of the call.
Updates(t) ==
  CASE t.pc = "d_status_wr" -> StatusUpdates("terminating", FALSE)
    [] t.pc = "f_status_wr" -> StatusUpdates("running", FALSE)
    [] t.pc \in {"c_assign_rd", "c_assign_wr"} -> [workerId |-> t.w]
    [] t.pc \in {"c_ready_rd", "c_ready_wr"} -> StatusUpdates("ready", FALSE)

\* Where the handler goes on after the call.
AfterUpdate(pc) ==
  CASE pc = "d_status_wr" -> "d_enqueue"
    [] pc = "f_status_wr" -> "done"
    [] pc \in {"c_assign_rd", "c_assign_wr"} -> "c_container"
    [] pc \in {"c_ready_rd", "c_ready_wr"} -> "c_publish"

ReadPcs == {"c_assign_rd", "c_ready_rd"}

WritePc(pc) == IF pc = "c_assign_rd" THEN "c_assign_wr" ELSE "c_ready_wr"

WritePcs == {WritePc(pc) : pc \in ReadPcs} \cup {"d_status_wr", "f_status_wr"}

\* A task that has nothing left to do leaves; any other moves to its next pc.
Continue(t, u, pc) ==
  IF pc = "done" THEN tasks' = tasks \ {t} ELSE Replace(t, [u EXCEPT !.pc = pc])

\* updateSession, first await: getSession. A missing record ends the call.
UpdateSessionRead(t) ==
  /\ t.pc \in ReadPcs
  /\ IF Exists(rec[t.sid])
     THEN Replace(t, [t EXCEPT !.pc = WritePc(t.pc), !.snap = rec[t.sid]])
     ELSE Continue(t, t, AfterUpdate(t.pc))
  /\ UNCHANGED <<router, extra, expiry, store, containers, queue, delayed, agents, timers, alive, created, used>>

\* updateSession, the rest: ttl, setex of the merged record, srem and sadd.
UpdateSessionWrite(t) ==
  /\ t.pc \in WritePcs
  /\ UpdateWrite(t.sid, t.snap, Updates(t))
  /\ Continue(t, [t EXCEPT !.snap = NoRec], AfterUpdate(t.pc))
  /\ UNCHANGED <<router, extra, expiry, index, vncKeys, mcpKeys, containers, queue, delayed, agents,
                 timers, alive, created, used>>

\* updateSession with nothing in between its read and its write.
UpdateNow(sid, updates) == UpdateWrite(sid, rec[sid], updates)

\* ------------------------------------------- API: DELETE /session/:id

\* getSession: 404 when absent; else the job data is taken from this read and
\* updateSessionStatus(terminating) starts.
DeleteStart(sid) ==
  /\ CanSpend
  /\ Cardinality(tasks) < MaxTasks
  /\ sid \in 1..created
  /\ Spend
  /\ IF Exists(rec[sid])
     THEN LET t == [Task("delete", sid, 0, "d_status_wr", 0, rec[sid].vncPort, 0,
                         rec[sid].containerId) EXCEPT !.snap = rec[sid]] IN
          /\ t \notin tasks
          /\ tasks' = tasks \cup {t}
     ELSE UNCHANGED tasks
  /\ UNCHANGED <<router, extra, expiry, store, containers, queue, delayed, agents, timers, alive, created>>

\* queue.add of the terminate_session job: containerId and vncPort only.
DeleteEnqueue(t) ==
  /\ t.kind = "delete" /\ t.pc = "d_enqueue"
  /\ queue' = queue \cup {Job("terminate_session", t.sid, t.vncPort, t.containerId, 0, 1)}
  /\ Drop(t)
  /\ UNCHANGED <<router, extra, expiry, store, containers, delayed, agents, timers, alive, created, used>>

\* ------------------------------------------- API: chat socket, inbound frame

\* chatWebSocketHandler.message: getSession; for a ready or running session
\* updateSessionStatus(running) and queue.add of the process_message job are
\* started without awaiting.
FrameStart(sid) ==
  /\ CanSpend
  /\ Cardinality(tasks) < MaxTasks
  /\ sid \in 1..created
  /\ Spend
  /\ IF rec[sid].status \in {"ready", "running"}
     THEN /\ tasks' = tasks \cup {[Task("frame", sid, 0, "f_status_wr", 0, 0, 0, 0)
                                     EXCEPT !.snap = rec[sid]]}
          /\ queue' = queue \cup {Job("process_message", sid, 0, 0, 0, 1)}
     ELSE UNCHANGED <<tasks, queue>>
  /\ UNCHANGED <<router, extra, expiry, store, containers, delayed, agents, timers, alive, created>>

\* ------------------------------------------------ ContainerManager (docker)

Container(id, sid, vncPort, mcpPort, state) ==
  [id |-> id, sid |-> sid, vncPort |-> vncPort, mcpPort |-> mcpPort, state |-> state]

ContainerOf(cid) == {c \in containers : c.id = cid}

\* The id the runtime gives a new container: one that nothing holds or
\* remembers (the least such, ids being opaque).
KnownIds ==
  {c.id : c \in containers} \cup {rec[s].containerId : s \in Sessions}
    \cup {t.containerId : t \in tasks} \cup {j.containerId : j \in queue \cup delayed}

NewId == CHOOSE i \in 1..(Cardinality(KnownIds) + 1) :
           i \notin KnownIds /\ \A k \in 1..(i - 1) : k \in KnownIds

\* createContainer names the container ottobot-<sessionId>: the runtime
\* refuses a name that is in use.
NameInUse(sid) == \E c \in containers : c.sid = sid

\* startContainer binds the two host ports: the runtime refuses a host port
\* a running container has bound.
CanStart(cid) ==
  \E c \in ContainerOf(cid) :
    \A d \in containers :
      (d.id # cid /\ d.state = "running") => (d.vncPort # c.vncPort /\ d.mcpPort # c.mcpPort)

IsRunning(cid) == \E c \in ContainerOf(cid) : c.state = "running"

StartContainer(cid) ==
  {IF c.id = cid THEN [c EXCEPT !.state = "running"] ELSE c : c \in containers}

\* stopContainer then removeContainer (force), as the handlers pair them: a
\* failed stop is caught and the container, if there is one, is gone.
RemoveContainer(cid) == {c \in containers : c.id # cid}

\* ------------------------------------------------------------ worker: jobs

JobTasks(w) == {t \in tasks : t.w = w /\ t.kind \in JobKinds}

FirstPc(type) ==
  CASE type = "create_session" -> "c_assign_rd"
    [] type = "terminate_session" -> "t_cleanup"
    [] type = "process_message" -> "m_get"

\* The job a running handler was started from.
JobOf(t) ==
  [type |-> t.kind, sid |-> t.sid, vncPort |-> t.vncPort,
   containerId |-> IF t.kind = "terminate_session" THEN t.containerId ELSE 0,
   mcpPort |-> 0, att |-> t.att]

\* A worker takes a waiting job of the most urgent priority, while it runs
\* fewer than `concurrency` jobs.
PickJob(w, j) ==
  /\ alive[w]
  /\ j \in queue
  /\ \A k \in queue : Priority(j.type) <= Priority(k.type)
  /\ Cardinality(JobTasks(w)) < concurrency
  /\ Cardinality(tasks) < MaxTasks
  /\ LET t == [Task(j.type, j.sid, w, FirstPc(j.type), j.att, j.vncPort, j.mcpPort,
                    j.containerId) EXCEPT !.from = rec[j.sid].status] IN
       /\ t \notin tasks
       /\ tasks' = tasks \cup {t}
  /\ queue' = queue \ {j}
  /\ UNCHANGED <<router, extra, expiry, store, containers, delayed, agents, timers, alive,
                 created, used>>

\* The backoff of a failed job ends.
Retry(j) ==
  /\ j \in delayed
  /\ delayed' = delayed \ {j}
  /\ queue' = queue \cup {j}
  /\ UNCHANGED <<router, extra, expiry, store, containers, tasks, agents, timers, alive,
                 created, used>>

\* A running job loses its lock (stalledInterval) and the queue hands it out
\* again while the first execution goes on: at-least-once delivery. When the
\* lock is lost during the execution makes no difference to when the job can
\* be taken again, so it is lost at the start.
Stall(t) ==
  /\ t.kind \in JobKinds
  /\ t.lock
  /\ t.pc = FirstPc(t.kind)
  /\ CanSpend
  /\ Spend
  /\ queue' = queue \cup {JobOf(t)}
  /\ Replace(t, [t EXCEPT !.lock = FALSE])
  /\ UNCHANGED <<router, extra, expiry, store, containers, delayed, agents, timers, alive, created>>

\* The processor returned: the job is completed and removed.
Complete(t) == tasks' = tasks \ {t}

\* The processor threw: the worker's 'failed' event starts handleJobFailure
\* (not awaited) and the queue retries the job until its attempts are spent.
\* The queue takes no result from an execution that has lost its lock.
Fail(t) ==
  IF t.lock
  THEN /\ tasks' = (tasks \ {t}) \cup {[Task("failure", t.sid, t.w, "h_status", 0, 0, 0, 0)
                                           EXCEPT !.from = t.kind]}
       /\ delayed' = IF t.att < attempts
                     THEN delayed \cup {[JobOf(t) EXCEPT !.att = t.att + 1]}
                     ELSE delayed
  ELSE /\ tasks' = tasks \ {t}
       /\ UNCHANGED delayed

\* SessionHandler.handleJobFailure: updateSessionStatus(error).
HandleJobFailure(t) ==
  /\ t.kind = "failure" /\ t.pc = "h_status"
  /\ UpdateNow(t.sid, StatusUpdates("error", TRUE))
  /\ Drop(t)
  /\ UNCHANGED <<router, extra, expiry, index, vncKeys, mcpKeys, containers, queue, delayed, agents, timers,
                 alive, created, used>>

\* ------------------------------------- SessionHandler.createSession (worker)

\* allocateMcpPort, containerManager.createContainer and updateSession of
\* containerId and mcpPort. Without a free port, or when the runtime refuses
\* the container, the handler throws; a port it took stays in its local
\* mcpPort for the cleanup.
CreateContainer(t) ==
  /\ t.kind = "create_session" /\ t.pc = "c_container"
  /\ LET port == AllocatePort(mcpKeys, mcpPortRangeStart, mcpPortRangeEnd) IN
       IF port = 0
       THEN /\ Goto(t, "c_error")
            /\ UNCHANGED <<rec, byWorker, mcpKeys, containers>>
       ELSE /\ mcpKeys' = ClaimPort(mcpKeys, port, t.sid)
            /\ IF NameInUse(t.sid)
               THEN /\ Replace(t, [t EXCEPT !.pc = "c_error", !.mcpPort = port])
                    /\ UNCHANGED <<rec, byWorker, containers>>
               ELSE /\ containers' =
                         containers \cup {Container(NewId, t.sid, t.vncPort, port, "created")}
                    /\ UpdateNow(t.sid, [containerId |-> NewId, mcpPort |-> port])
                    /\ Replace(t, [t EXCEPT !.pc = "c_start", !.mcpPort = port,
                                            !.containerId = NewId])
  /\ UNCHANGED <<router, extra, expiry, index, vncKeys, queue, delayed, agents, timers, alive, created, used>>

\* containerManager.startContainer and waitForVnc, then startAgent: the agent
\* is put in activeAgents and initialized.
CreateStart(t) ==
  /\ t.kind = "create_session" /\ t.pc = "c_start"
  /\ IF CanStart(t.containerId)
     THEN /\ containers' = StartContainer(t.containerId)
          /\ agents' = [agents EXCEPT ![t.w] = @ \cup {t.sid}]
          /\ Goto(t, "c_ready_rd")
     ELSE /\ Goto(t, "c_error")
          /\ UNCHANGED <<containers, agents>>
  /\ UNCHANGED <<router, extra, expiry, store, queue, delayed, timers, alive, created, used>>

\* The container starts, but agent.initialize throws (its first event cannot
\* be published): the agent stays in activeAgents.
CreateAgentFault(t) ==
  /\ t.kind = "create_session" /\ t.pc = "c_start"
  /\ CanStart(t.containerId)
  /\ CanSpend
  /\ Spend
  /\ containers' = StartContainer(t.containerId)
  /\ agents' = [agents EXCEPT ![t.w] = @ \cup {t.sid}]
  /\ Goto(t, "c_error")
  /\ UNCHANGED <<router, extra, expiry, store, queue, delayed, timers, alive, created>>

\* SessionRouter.publish of the ready message: the job ends at progress 100.
CreatePublish(t) ==
  /\ t.kind = "create_session" /\ t.pc = "c_publish"
  /\ Complete(t)
  /\ UNCHANGED <<router, extra, expiry, store, containers, queue, delayed, agents, timers, alive, created, used>>

\* The pub/sub transport fails under that publish: the handler throws.
CreatePublishFault(t) ==
  /\ t.kind = "create_session" /\ t.pc = "c_publish"
  /\ CanSpend
  /\ Spend
  /\ Goto(t, "c_error")
  /\ UNCHANGED <<router, extra, expiry, store, containers, queue, delayed, agents, timers, alive, created>>

\* catch: updateSessionStatus(error).
CreateError(t) ==
  /\ t.kind = "create_session" /\ t.pc = "c_error"
  /\ UpdateNow(t.sid, StatusUpdates("error", TRUE))
  /\ Goto(t, "c_cleanup")
  /\ UNCHANGED <<router, extra, expiry, index, vncKeys, mcpKeys, containers, queue, delayed, agents, timers,
                 alive, created, used>>

\* catch, the rest: getSession; stop and remove the container the record
\* names; release the desktop port of the job data and the tool port this run
\* took; deleteSession; throw again, so the job fails.
CreateCleanup(t) ==
  /\ t.kind = "create_session" /\ t.pc = "c_cleanup"
  /\ containers' = IF rec[t.sid].containerId # 0
                   THEN RemoveContainer(rec[t.sid].containerId)
                   ELSE containers
  /\ vncKeys' = IF t.vncPort # 0 THEN ReleasePort(vncKeys, t.vncPort) ELSE vncKeys
  /\ mcpKeys' = IF t.mcpPort # 0 THEN ReleasePort(mcpKeys, t.mcpPort) ELSE mcpKeys
  /\ DeleteSession(t.sid)
  /\ Fail(t)
  /\ UNCHANGED <<router, extra, expiry, queue, agents, timers, alive, created, used>>

\* ---------------------------------- SessionHandler.terminateSession (worker)

\* Shut down and forget the agent this worker holds for the session; stop
\* and remove the container of the job data; release the ports of the job
\* data.
TerminateCleanup(t) ==
  /\ t.kind = "terminate_session" /\ t.pc = "t_cleanup"
  /\ agents' = [agents EXCEPT ![t.w] = @ \ {t.sid}]
  /\ containers' = IF t.containerId # 0 THEN RemoveContainer(t.containerId) ELSE containers
  /\ vncKeys' = IF t.vncPort # 0 THEN ReleasePort(vncKeys, t.vncPort) ELSE vncKeys
  /\ mcpKeys' = IF t.mcpPort # 0 THEN ReleasePort(mcpKeys, t.mcpPort) ELSE mcpKeys
  /\ Goto(t, "t_status")
  /\ UNCHANGED <<router, extra, expiry, rec, index, byWorker, queue, delayed, timers, alive, created, used>>

\* updateSessionStatus(terminated); the purge is scheduled and the job ends.
TerminateDone(t) ==
  /\ t.kind = "terminate_session" /\ t.pc = "t_status"
  /\ UpdateNow(t.sid, StatusUpdates("terminated", FALSE))
  /\ timers' = timers \cup {<<t.w, t.sid>>}
  /\ Complete(t)
  /\ UNCHANGED <<router, extra, expiry, index, vncKeys, mcpKeys, containers, queue, delayed, agents, alive,
                 created, used>>

\* The timer fires: deleteSession.
Purge(w, sid) ==
  /\ <<w, sid>> \in timers
  /\ timers' = timers \ {<<w, sid>>}
  /\ DeleteSession(sid)
  /\ UNCHANGED <<router, extra, expiry, vncKeys, mcpKeys, containers, queue, delayed, tasks, agents,
                 alive, created, used>>

\* ------------------------------------ SessionHandler.processMessage (worker)

\* getSession and the agent lookup, then the user prompt is published and the
\* agent answers. Without the record or the agent the handler throws, and
\* its catch publishes an error event and throws again.
ProcessMessage(t) ==
  /\ t.kind = "process_message" /\ t.pc = "m_get"
  /\ IF Exists(rec[t.sid]) /\ t.sid \in agents[t.w]
     THEN /\ Complete(t)
          /\ UNCHANGED delayed
     ELSE Fail(t)
  /\ UNCHANGED <<router, extra, expiry, store, containers, queue, agents, timers, alive, created, used>>

\* --------------------------------------------- AgentWorker.shutdown (worker)

\* SIGTERM: worker.close() has let the running jobs finish; cleanup starts.
Shutdown(w) ==
  /\ alive[w]
  /\ JobTasks(w) = {}
  /\ CanSpend
  /\ Spend
  /\ alive' = [alive EXCEPT ![w] = FALSE]
  /\ tasks' = tasks \cup {Task("cleanup", 0, w, "k_next", 0, 0, 0, 0)}
  /\ UNCHANGED <<router, extra, expiry, store, containers, queue, delayed, agents, timers, created>>

\* SessionHandler.cleanup: the next active agent is shut down and its session
\* set to terminated; after the last one the process exits, and its timers
\* and unfinished failure handlers go with it.
CleanupNext(t) ==
  /\ t.kind = "cleanup" /\ t.pc = "k_next"
  /\ IF agents[t.w] = {}
     THEN /\ tasks' = {u \in tasks : u.w # t.w}
          /\ timers' = {x \in timers : x[1] # t.w}
          /\ UNCHANGED <<rec, byWorker, agents>>
     ELSE \E sid \in agents[t.w] :
            /\ agents' = [agents EXCEPT ![t.w] = @ \ {sid}]
            /\ UpdateNow(sid, StatusUpdates("terminated", FALSE))
            /\ UNCHANGED <<tasks, timers>>
  /\ UNCHANGED <<router, extra, expiry, index, vncKeys, mcpKeys, containers, queue, delayed, alive, created, used>>

\* ------------------------------------------------------------- store TTLs

\* The TTL of a session record elapses while the session is at work (a long
\* wait for the desktop, a short session timeout).
ExpireSession(sid) ==
  /\ Exists(rec[sid])
  /\ CanSpend
  /\ Spend
  /\ rec' = [rec EXCEPT ![sid] = NoRec]
  /\ UNCHANGED <<router, extra, expiry, index, byWorker, vncKeys, mcpKeys, containers, queue, delayed,
                 tasks, agents, timers, alive, created>>

\* The TTL of the record of a session at rest elapses: no job of the session
\* waits or runs. The index entry and the worker-set entry have no expiry.
LapseSession(sid) ==
  /\ Exists(rec[sid])
  /\ \A t \in tasks : t.sid # sid
  /\ \A j \in queue \cup delayed : j.sid # sid
  /\ rec' = [rec EXCEPT ![sid] = NoRec]
  /\ UNCHANGED <<router, extra, expiry, index, byWorker, vncKeys, mcpKeys, containers, queue,
                 delayed, tasks, agents, timers, alive, created, used>>

\* The 2 hour lease of a port key that has one elapses. The record of the session whose
\* request set the key was created before the key and lives at most half as
\* long (session.timeout), and no handler runs for hours: by then the record
\* is gone and no handler of that session is in flight.
LeaseOver(sid) ==
  IF sid \in Sessions
  THEN ~Exists(rec[sid]) /\ \A t \in tasks : t.sid # sid
  ELSE TRUE

ExpireVncKey(p) ==
  /\ vncKeys[p] # 0
  /\ p \notin unleased
  /\ LeaseOver(vncKeys[p])
  /\ vncKeys' = ReleasePort(vncKeys, p)
  /\ UNCHANGED <<router, extra, expiry, rec, index, byWorker, mcpKeys, containers, queue, delayed,
                 tasks, agents, timers, alive, created, used>>

ExpireMcpKey(p) ==
  /\ mcpKeys[p] # 0
  /\ p \notin unleased
  /\ LeaseOver(mcpKeys[p])
  /\ mcpKeys' = ReleasePort(mcpKeys, p)
  /\ UNCHANGED <<router, extra, expiry, rec, index, byWorker, vncKeys, containers, queue, delayed,
                 tasks, agents, timers, alive, created, used>>

\* ------------------------------------------------------------ SessionRouter

\* SessionRouter.subscribe: the first callback of the session makes the Map
\* entry and calls startListening, which marks the channel and sends SUBSCRIBE
\* without waiting for the store; the callback is added and subscribe returns.
Subscribe(p, c) ==
  /\ c \notin subscribers[p]
  /\ Len(subCmds[p]) < MaxCmds
  /\ subscribers' = [subscribers EXCEPT ![p] = @ \cup {c}]
  /\ IF subscribers[p] = {} /\ ~redisSubscriptions[p]
     THEN /\ redisSubscriptions' = [redisSubscriptions EXCEPT ![p] = TRUE]
          /\ subCmds' = [subCmds EXCEPT ![p] = Append(@, "subscribe")]
     ELSE UNCHANGED <<redisSubscriptions, subCmds>>
  /\ UNCHANGED <<lifecycle, extra, expiry, listening, inbox, pubCall, published, log>>

\* A publish call no longer counts a callback that has been taken away.
Forget(p, c) ==
  [m \in DOMAIN published |-> [published[m] EXCEPT !.before = @ \ {<<p, c>>}]]

\* The function subscribe returned: the callback is deleted; the last one
\* takes the Map entry with it and calls stopListening, which sends
\* UNSUBSCRIBE and unmarks the channel.
Unsubscribe(p, c) ==
  /\ c \in subscribers[p]
  /\ Len(subCmds[p]) < MaxCmds
  /\ subscribers' = [subscribers EXCEPT ![p] = @ \ {c}]
  /\ IF subscribers[p] = {c} /\ redisSubscriptions[p]
     THEN /\ redisSubscriptions' = [redisSubscriptions EXCEPT ![p] = FALSE]
          /\ subCmds' = [subCmds EXCEPT ![p] = Append(@, "unsubscribe")]
     ELSE UNCHANGED <<redisSubscriptions, subCmds>>
  /\ published' = Forget(p, c)
  /\ UNCHANGED <<lifecycle, extra, expiry, listening, inbox, pubCall, log>>

\* The store handles the next command of a subscriber connection.
StoreCommand(p) ==
  /\ subCmds[p] # <<>>
  /\ listening' = [listening EXCEPT ![p] = (Head(subCmds[p]) = "subscribe")]
  /\ subCmds' = [subCmds EXCEPT ![p] = Tail(@)]
  /\ UNCHANGED <<lifecycle, extra, expiry, subscribers, redisSubscriptions, inbox, pubCall, published, log>>

\* A SUBSCRIBE fails: its callback gets err and unmarks the channel.
SubscribeError(p) ==
  /\ subCmds[p] # <<>>
  /\ Head(subCmds[p]) = "subscribe"
  /\ subCmds' = [subCmds EXCEPT ![p] = Tail(@)]
  /\ redisSubscriptions' = [redisSubscriptions EXCEPT ![p] = FALSE]
  /\ UNCHANGED <<lifecycle, extra, expiry, subscribers, listening, inbox, pubCall, published, log>>

\* The callbacks that have been subscribed, and not taken away, in any process.
Subscribed == {<<p, c>> \in Procs \X Callbacks : c \in subscribers[p]}

\* SessionRouter.publish is called: pubClient.publish is sent and awaited. A
\* handler awaits each publish before its next one.
PublishCall(p) ==
  /\ pubCall[p] = 0
  /\ Len(published) < MaxMsgs
  /\ pubCall' = [pubCall EXCEPT ![p] = Len(published) + 1]
  /\ published' = Append(published, [by |-> p, before |-> Subscribed, result |-> "sent"])
  /\ UNCHANGED <<lifecycle, extra, expiry, subscribers, redisSubscriptions, subCmds, listening, inbox, log>>

\* The store handles the PUBLISH: a copy goes to every subscribed connection.
StorePublish(p) ==
  /\ pubCall[p] # 0
  /\ published[pubCall[p]].result = "sent"
  /\ inbox' = [q \in Procs |-> IF listening[q] THEN Append(inbox[q], pubCall[p]) ELSE inbox[q]]
  /\ published' = [published EXCEPT ![pubCall[p]].result = "stored"]
  /\ UNCHANGED <<lifecycle, extra, expiry, subscribers, redisSubscriptions, subCmds, listening, pubCall, log>>

\* Every callback of a set is invoked with the message.
Dispatch(p, m) ==
  [log EXCEPT ![p] = [c \in Callbacks |-> IF c \in subscribers[p] THEN Append(@[c], m) ELSE @[c]]]

\* The awaited pubClient.publish resolves: publish notifies the local
\* subscribers directly and returns.
PublishReturn(p) ==
  /\ pubCall[p] # 0
  /\ published[pubCall[p]].result = "stored"
  /\ log' = Dispatch(p, pubCall[p])
  /\ published' = [published EXCEPT ![pubCall[p]].result = "ok"]
  /\ pubCall' = [pubCall EXCEPT ![p] = 0]
  /\ UNCHANGED <<lifecycle, extra, expiry, subscribers, redisSubscriptions, subCmds, listening, inbox>>

\* The awaited pubClient.publish rejects (the store is unreachable): the
\* catch logs and throws again.
PublishError(p) ==
  /\ pubCall[p] # 0
  /\ published[pubCall[p]].result = "sent"
  /\ published' = [published EXCEPT ![pubCall[p]].result = "error"]
  /\ pubCall' = [pubCall EXCEPT ![p] = 0]
  /\ UNCHANGED <<lifecycle, extra, expiry, subscribers, redisSubscriptions, subCmds, listening, inbox, log>>

\* subClient.on('message'), set up by initialize: the local subscribers of
\* the session are notified.
OnMessage(p) ==
  /\ inbox[p] # <<>>
  /\ log' = Dispatch(p, Head(inbox[p]))
  /\ inbox' = [inbox EXCEPT ![p] = Tail(@)]
  /\ UNCHANGED <<lifecycle, extra, expiry, subscribers, redisSubscriptions, subCmds, listening, pubCall,
                 published>>

RouterNext ==
  \/ \E p \in Procs, c \in Callbacks : Subscribe(p, c)
  \/ \E p \in Procs, c \in Callbacks : Unsubscribe(p, c)
  \/ \E p \in Procs : StoreCommand(p)
  \/ \E p \in Procs : SubscribeError(p)
  \/ \E p \in Procs : PublishCall(p)
  \/ \E p \in Procs : StorePublish(p)
  \/ \E p \in Procs : PublishReturn(p)
  \/ \E p \in Procs : PublishError(p)
  \/ \E p \in Procs : OnMessage(p)

RouterSpec == Init /\ [][RouterNext]_vars

\* ------------------------------------------------------------ specification

\* What the clients and the surroundings do.
Environment ==
  \/ Post
  \/ \E sid \in Sessions : DeleteStart(sid)
  \/ \E sid \in Sessions : FrameStart(sid)
  \/ \E sid \in Sessions : ExpireSession(sid)
  \/ \E t \in tasks : Stall(t)
  \/ \E t \in tasks : CreateAgentFault(t)
  \/ \E t \in tasks : CreatePublishFault(t)
  \/ \E w \in Workers : Shutdown(w)

\* What the API process, the queue and the workers do on their own.
Progress ==
  \/ \E t \in tasks : UpdateSessionRead(t)
  \/ \E t \in tasks : UpdateSessionWrite(t)
  \/ \E t \in tasks : DeleteEnqueue(t)
  \/ \E w \in Workers : \E j \in queue : PickJob(w, j)
  \/ \E j \in delayed : Retry(j)
  \/ \E t \in tasks : CreateContainer(t)
  \/ \E t \in tasks : CreateStart(t)
  \/ \E t \in tasks : CreatePublish(t)
  \/ \E t \in tasks : CreateError(t)
  \/ \E t \in tasks : CreateCleanup(t)
  \/ \E t \in tasks : HandleJobFailure(t)
  \/ \E t \in tasks : TerminateCleanup(t)
  \/ \E t \in tasks : TerminateDone(t)
  \/ \E t \in tasks : ProcessMessage(t)
  \/ \E t \in tasks : CleanupNext(t)
  \/ \E w \in Workers : \E sid \in Sessions : Purge(w, sid)
  \/ \E sid \in Sessions : LapseSession(sid)
  \/ \E p \in VncPorts : ExpireVncKey(p)
  \/ \E p \in McpPorts : ExpireMcpKey(p)

Next == Environment \/ Progress

Spec == Init /\ [][Next]_vars

\* The same system from the moment a DELETE of a ready session has been
\* answered: the session is terminating and its terminate_session job waits.
DrainInit ==
  /\ RouterInit
  /\ ExpiryInit
  /\ ExtraInit
  /\ \E w \in Workers :
       /\ rec = [s \in Sessions |->
                   IF s = 1
                   THEN [status |-> "terminating", vncPort |-> vncPortRangeStart,
                         mcpPort |-> mcpPortRangeStart, containerId |-> 1, workerId |-> w,
                         error |-> FALSE]
                   ELSE NoRec]
       /\ byWorker = [v \in Workers |-> IF v = w THEN {1} ELSE {}]
       /\ agents = [v \in Workers |-> IF v = w THEN {1} ELSE {}]
  /\ index = {1}
  /\ vncKeys = [p \in VncPorts |-> IF p = vncPortRangeStart THEN 1 ELSE 0]
  /\ mcpKeys = [p \in McpPorts |-> IF p = mcpPortRangeStart THEN 1 ELSE 0]
  /\ containers = {Container(1, 1, vncPortRangeStart, mcpPortRangeStart, "running")}
  /\ queue = {Job("terminate_session", 1, vncPortRangeStart, 1, 0, 1)}
  /\ delayed = {}
  /\ tasks = {}
  /\ timers = {}
  /\ alive = [v \in Workers |-> TRUE]
  /\ created = 1
  /\ used = 0

DrainSpec == DrainInit /\ [][Next]_vars

\* The workers, the queue and the API process keep going; clients and
\* faults owe nothing.
FairSpec == Spec /\ WF_vars(Progress)

\* -------------------------------------------------------------- properties

\* The live sessions whose record has the port in the given field: a
\* terminated record keeps its port fields until it is purged.
Holders(field, p) ==
  {s \in Sessions : Exists(rec[s]) /\ rec[s].status # "terminated" /\ rec[s][field] = p}

\* A range's side of port exclusivity: at most one live record has the port,
\* and the port's key exists iff one has. Keys left by an earlier run belong
\* to records of that run and are not judged.
RangeExclusive(keys, ports, field) ==
  \A p \in ports :
    /\ Cardinality(Holders(field, p)) <= 1
    /\ keys[p] # Earlier => (keys[p] # 0 <=> Holders(field, p) # {})

\* C1: at every instant, for any port of either range, at most one session
\* record has it as vncPort (resp. mcpPort), and its allocator key exists iff
\* such a record exists with a status other than terminated.
C1_PortExclusivity ==
  /\ RangeExclusive(vncKeys, VncPorts, "vncPort")
  /\ RangeExclusive(mcpKeys, McpPorts, "mcpPort")

\* C1, the state that refutes it for good: terminateSession has finished for a
\* session (nothing of it is queued or running), its record is terminated,
\* and the tool port key it allocated is still set.
C1_KeyOutlivesSession ==
  \E s \in Sessions :
    /\ rec[s].status = "terminated"
    /\ rec[s].mcpPort # 0
    /\ mcpKeys[rec[s].mcpPort] = s
    /\ \A t \in tasks : t.sid # s
    /\ \A j \in queue \cup delayed : j.sid # s

\* Nothing in the store or the runtime is left of a session.
Reclaimed(s) ==
  /\ \A p \in VncPorts : vncKeys[p] # s
  /\ \A p \in McpPorts : mcpKeys[p] # s
  /\ \A c \in containers : c.sid # s

\* C2: every session that reaches terminated or error eventually has both
\* its port allocator keys absent and no container of its own in the runtime.
C2_ResourceConservation ==
  \A s \in Sessions : (rec[s].status \in Terminal) ~> Reclaimed(s)

\* C3: no step changes a session's status from terminated or error to
\* initializing, ready, running or terminating.
C3_StatusMonotonicity ==
  [][\A s \in Sessions :
       rec[s].status \in Terminal => rec'[s].status \in Terminal \cup {"absent"}]_vars

\* C3, where it breaks: an updateSession holds a read of the record from
\* before the status became terminal, and has yet to write.
C3_StaleWritePending ==
  \E t \in tasks :
    /\ t.pc \in WritePcs
    /\ rec[t.sid].status \in Terminal
    /\ Merge(t.snap, Updates(t)).status \notin Terminal

\* C4: at every instant, every session id is in the sessions:by-worker set of
\* at most one worker.
C4_AtMostOneOwner ==
  \A s \in Sessions : Cardinality({w \in Workers : s \in byWorker[w]}) <= 1

\* The times a callback has been invoked with a message.
Count(seq, m) == Cardinality({i \in DOMAIN seq : seq[i] = m})

\* Nothing of a publish call is still on its way to a process.
Settled(m, p) ==
  /\ published[m].result \in {"ok", "error"}
  /\ \A i \in DOMAIN inbox[p] : inbox[p][i] # m

\* C5: a callback subscribed in a process before that process calls publish
\* is invoked exactly once for the call, the local dispatch and the dispatch
\* of the process's own channel handler both counted.
C5_LocalExactlyOnce ==
  \A m \in DOMAIN published : \A x \in published[m].before :
    (x[1] = published[m].by /\ published[m].result # "error") =>
      /\ Count(log[x[1]][x[2]], m) <= 1
      /\ (published[m].result = "ok" /\ Settled(m, x[1])) => Count(log[x[1]][x[2]], m) = 1

\* C6: a callback whose subscribe has returned on one process is invoked
\* exactly once with each message another process then publishes with
\* success.
C6_RemoteExactlyOnce ==
  \A m \in DOMAIN published : \A x \in published[m].before :
    (x[1] # published[m].by /\ published[m].result = "ok") =>
      /\ Count(log[x[1]][x[2]], m) <= 1
      /\ Settled(m, x[1]) => Count(log[x[1]][x[2]], m) = 1

\* C7: when the store publish inside publish fails, the caller gets the error
\* and every local subscriber of the session has still been invoked with the
\* message.
C7_LocalDeliveryOnError ==
  \A m \in DOMAIN published : \A x \in published[m].before :
    (x[1] = published[m].by /\ published[m].result = "error") =>
      Count(log[x[1]][x[2]], m) >= 1

\* C8: a subscriber never observes a later event of a publisher before an
\* earlier one of the same publisher: what it has been invoked with is in the
\* order of the publish calls.
C8_PublishOrder ==
  \A p \in Procs : \A c \in Callbacks :
    \A i, j \in DOMAIN log[p][c] :
      (i < j /\ published[log[p][c][i]].by = published[log[p][c][j]].by)
        => log[p][c][i] <= log[p][c][j]

\* A run of createSession that started when the session was already ready.
IsCreateReplay(t) == t.kind = "create_session" /\ t.from = "ready"

\* C9: a create_session job delivered again after the session reached ready
\* creates no second container, leaves the session ready with its container
\* and ports intact, and ends without error.
C9_CreateReplayIsNoOp ==
  \A t \in tasks :
    IsCreateReplay(t) =>
      /\ t.pc \notin {"c_error", "c_cleanup"}
      /\ rec[t.sid].status \in {"ready", "running"}
      /\ Cardinality({c \in containers : c.sid = t.sid}) = 1
      /\ IsRunning(rec[t.sid].containerId)
      /\ vncKeys[rec[t.sid].vncPort] = t.sid
      /\ mcpKeys[rec[t.sid].mcpPort] = t.sid

\* C9, its case: such a replay has been taken by a worker.
C9_ReplayTaken == \E t \in tasks : IsCreateReplay(t)

\* A run of terminateSession that started after an earlier run had set the
\* session terminated and scheduled its purge, and a step of that run.
IsTerminateReplay(t) ==
  /\ t.kind = "terminate_session"
  /\ t.from = "terminated"
  /\ \E w \in Workers : <<w, t.sid>> \in timers

TerminateStep(t) == TerminateCleanup(t) \/ TerminateDone(t)

\* C10: a run of terminateSession after a first successful run changes
\* nothing: the session's status, every port allocator key and the set of
\* containers are after each of its steps what they were before.
C10_TerminateReplayIsNoOp ==
  [][\A t \in tasks :
       (IsTerminateReplay(t) /\ TerminateStep(t)) =>
         /\ rec'[t.sid].status = rec[t.sid].status
         /\ vncKeys' = vncKeys
         /\ mcpKeys' = mcpKeys
         /\ containers' = containers]_vars

\* C10, its case: such a replay is about to release the desktop port of its
\* job data while another session holds the key of that port.
C10_ReplayMeetsReallocatedPort ==
  \E t \in tasks :
    /\ IsTerminateReplay(t)
    /\ t.pc = "t_cleanup"
    /\ vncKeys[t.vncPort] \in Sessions \ {t.sid}

\* A step of a createSession execution, up to the end of its try block.
CreateStep(t) ==
  \/ UpdateSessionRead(t)
  \/ UpdateSessionWrite(t)
  \/ CreateContainer(t)
  \/ CreateStart(t)
  \/ CreatePublish(t)

\* C11: when a DELETE has set the session terminating while its createSession
\* runs (it started on the initializing session), the next step of
\* createSession goes to the cleanup path: it creates or starts no container,
\* does not set ready, and leaves the status terminating or terminated.
C11_CreateYieldsToTerminate ==
  [][\A t \in tasks :
       (/\ t.kind = "create_session" /\ t.from = "initializing"
        /\ rec[t.sid].status = "terminating" /\ CreateStep(t)) =>
         /\ containers' = containers
         /\ rec'[t.sid].status \in {"terminating", "terminated"}
         /\ \A u \in tasks' \ tasks : u.pc \in {"c_error", "c_cleanup"}]_vars

\* C11, its case: the first delivery of a create_session job is running, and
\* a DELETE has been accepted and has set the session terminating.
C11_DeleteDuringCreate ==
  \E t \in tasks :
    /\ t.kind = "create_session" /\ t.lock /\ t.from = "initializing"
    /\ rec[t.sid].status = "terminating"
    /\ \E j \in queue : j.type = "terminate_session" /\ j.sid = t.sid

\* Some worker has the agent of the session in its activeAgents.
Hosted(sid) == \E w \in Workers : sid \in agents[w]

\* C12: every process_message job of a session is executed by the worker that
\* hosts the session's agent.
C12_MessageReachesAgent ==
  \A t \in tasks :
    (t.kind = "process_message" /\ Hosted(t.sid)) => t.sid \in agents[t.w]

\* C12, its case: a process_message job of a session whose agent runs on
\* some worker has been taken.
C12_MessageTaken ==
  \E t \in tasks :
    /\ t.kind = "process_message" /\ Hosted(t.sid)
    /\ rec[t.sid].status \in {"ready", "running"}

\* C13: a failure while a process_message job is handled leaves the session
\* ready or running: the handler of the job's 'failed' event does not take
\* the status out of these two.
C13_SessionUsableAfterFailure ==
  [][\A t \in tasks :
       (/\ t.kind = "failure" /\ t.from = "process_message"
        /\ rec[t.sid].status \in {"ready", "running"}
        /\ HandleJobFailure(t)) =>
         rec'[t.sid].status \in {"ready", "running"}]_vars

\* C13, its case: a process_message job of a ready or running session has
\* failed and the handler of its 'failed' event is about to run.
C13_MessageFailed ==
  \E t \in tasks :
    /\ t.kind = "failure" /\ t.from = "process_message"
    /\ rec[t.sid].status \in {"ready", "running"}

\* C14: when createSession fails, the session is left recorded with status
\* error and an error message: that is what a GET of the session reports
\* once the handler has returned.
C14_CreateFailureRecorded ==
  [][\A t \in tasks :
       (/\ t.kind = "create_session" /\ t.from = "initializing" /\ t.lock
        /\ CreateCleanup(t)) =>
         (rec'[t.sid].status = "error" /\ rec'[t.sid].error)]_vars

\* C14, its case: the first run of createSession has failed and has written
\* status error; the rest of its catch block is about to run.
C14_CreateFailed ==
  \E t \in tasks :
    /\ t.kind = "create_session" /\ t.from = "initializing" /\ t.lock
    /\ t.pc = "c_cleanup"
    /\ rec[t.sid].status = "error"

\* C15: a session record whose status is ready or running has a containerId
\* and a workerId.
C15_ReadyHasContainerAndWorker ==
  \A s \in Sessions :
    rec[s].status \in {"ready", "running"} =>
      (rec[s].containerId # 0 /\ rec[s].workerId # 0)

\* C15, its case: createSession has set a session ready while the
\* terminate_session job of a DELETE of that session waits.
C15_ReadyAfterDelete ==
  \E s \in Sessions :
    /\ rec[s].status = "ready"
    /\ \E j \in queue : j.type = "terminate_session" /\ j.sid = s

\* C16: a session record has an error field iff its status is error.
C16_ErrorIffStatusError ==
  \A s \in Sessions :
    Exists(rec[s]) => (rec[s].error <=> rec[s].status = "error")

\* C16, its case: a failure has been recorded on a session that exists.
C16_ErrorRecorded ==
  \E s \in Sessions : rec[s].error

\* ------------------------------------------- session keys and their TTLs

\* session.timeout, in the seconds of this model.
SessionTtl == 3

\* SessionManager.createSession: setex of the record with the session
\* timeout, and the index entry.
CreateSession ==
  /\ created < MaxSessions
  /\ created' = created + 1
  /\ rec' = [rec EXCEPT ![created + 1] = NewSession]
  /\ index' = index \cup {created + 1}
  /\ ttl' = [ttl EXCEPT ![created + 1].record = SessionTtl]
  /\ UNCHANGED <<router, extra, unleased, alloc, byWorker, vncKeys, mcpKeys, containers, queue,
                 delayed, tasks, agents, timers, alive, used>>

\* rpush makes the list when there is none, without expiry, and leaves the
\* expiry of one that exists; then `ttl = redis.ttl(record)` and, if ttl > 0,
\* expire(key, ttl).
RpushThenExpire(s, k) ==
  LET residual == ttl[s].record
      pushed == IF ttl[s][k] = KeyAbsent THEN NoExpiry ELSE ttl[s][k] IN
    [ttl EXCEPT ![s][k] = IF residual > 0 THEN residual ELSE pushed]

\* SessionManager.addSessionMessage, for a session id some caller holds.
AddSessionMessage(s) ==
  /\ s \in 1..created
  /\ ttl' = RpushThenExpire(s, "messages")
  /\ UNCHANGED <<router, extra, lifecycle, unleased, alloc>>

\* SessionManager.addSessionLog (ltrim changes no expiry).
AddSessionLog(s) ==
  /\ s \in 1..created
  /\ ttl' = RpushThenExpire(s, "logs")
  /\ UNCHANGED <<router, extra, lifecycle, unleased, alloc>>

\* SessionManager.storeSessionContext: setex with the record's residual TTL
\* when it is positive, else a plain set, which leaves the key no expiry.
StoreSessionContext(s) ==
  /\ s \in 1..created
  /\ ttl' = [ttl EXCEPT ![s].context = IF ttl[s].record > 0 THEN ttl[s].record ELSE NoExpiry]
  /\ UNCHANGED <<router, extra, lifecycle, unleased, alloc>>

\* SessionManager.updateSession (here of the status, as the chat handler
\* does): the record is written back with setex of its residual TTL.
UpdateSessionKeepsTtl(s) ==
  /\ Exists(rec[s])
  /\ UpdateNow(s, StatusUpdates("running", FALSE))
  /\ ttl' = [ttl EXCEPT ![s].record = IF ttl[s].record > 0 THEN ttl[s].record ELSE @]
  /\ UNCHANGED <<router, extra, unleased, alloc, index, vncKeys, mcpKeys, containers, queue,
                 delayed, tasks, agents, timers, alive, created, used>>

\* SessionManager.deleteSession: nothing when the record is absent, else the
\* record and its three derived keys are deleted.
DeleteSessionKeys(s) ==
  /\ s \in 1..created
  /\ DeleteSession(s)
  /\ ttl' = IF Exists(rec[s]) THEN [ttl EXCEPT ![s] = [k \in KeyNames |-> KeyAbsent]] ELSE ttl
  /\ UNCHANGED <<router, extra, unleased, alloc, vncKeys, mcpKeys, containers, queue, delayed,
                 tasks, agents, timers, alive, created, used>>

\* A second passes: every expiry comes a second closer, and a key whose
\* expiry is reached is gone.
SecondLater(n) == IF n > 1 THEN n - 1 ELSE IF n = 1 THEN KeyAbsent ELSE n

Tick ==
  /\ \E s \in Sessions, k \in KeyNames : ttl[s][k] > 0
  /\ ttl' = [s \in Sessions |-> [k \in KeyNames |-> SecondLater(ttl[s][k])]]
  /\ rec' = [s \in Sessions |-> IF ttl[s].record = 1 THEN NoRec ELSE rec[s]]
  /\ UNCHANGED <<router, extra, unleased, alloc, index, byWorker, vncKeys, mcpKeys, containers,
                 queue, delayed, tasks, agents, timers, alive, created, used>>

StreamNext ==
  \/ CreateSession
  \/ \E s \in Sessions : AddSessionMessage(s)
  \/ \E s \in Sessions : AddSessionLog(s)
  \/ \E s \in Sessions : StoreSessionContext(s)
  \/ \E s \in Sessions : UpdateSessionKeepsTtl(s)
  \/ \E s \in Sessions : DeleteSessionKeys(s)
  \/ Tick

StreamSpec == Init /\ [][StreamNext]_vars

\* C17: every derived key of a session that exists (messages, logs, context)
\* has the residual TTL of the session record, so it goes when the record
\* goes and none is without expiry.
C17_TtlCoherence ==
  \A s \in Sessions : \A k \in DerivedKeys :
    ttl[s][k] # KeyAbsent => (ttl[s].record > 0 /\ ttl[s][k] = ttl[s].record)

\* C17, its case: a derived key has been written for a session after the
\* session's record went.
C17_WrittenAfterRecord ==
  \E s \in 1..created : \E k \in DerivedKeys :
    /\ ttl[s].record = KeyAbsent
    /\ ttl[s][k] # KeyAbsent

\* The system after a DELETE, with the same fairness as FairSpec.
DrainFairSpec == DrainSpec /\ WF_vars(Progress)

\* Nothing of a session is left in the registry.
Purged(s) ==
  /\ ~Exists(rec[s])
  /\ s \notin index
  /\ \A w \in Workers : s \notin byWorker[w]

\* C18: every session that reaches status terminated is eventually purged:
\* its record, its sessions:index entry and its sessions:by-worker entry are
\* removed, also when the worker that ran terminateSession stops before the
\* purge.
C18_TerminatedIsPurged ==
  \A s \in Sessions : (rec[s].status = "terminated") ~> Purged(s)

\* C18, its case: the worker that ran terminateSession has stopped while the
\* purge it scheduled for the terminated session is still to come.
C18_PurgeLost ==
  \E x \in timers :
    /\ ~alive[x[1]]
    /\ rec[x[2]].status = "terminated"
    /\ x[2] \in index

\* An allocation over a range: `got` is the lowest port that had no live
\* key, and exactly its key has been made; or every port had a live key,
\* `got` is null (0) and no key has changed.
AllocatesLowest(keys, after, ports, got) ==
  /\ got = FirstFree(keys, ports)
  /\ got = 0 <=> \A q \in ports : keys[q] # 0
  /\ IF got = 0
     THEN after = keys
     ELSE /\ keys[got] = 0 /\ after[got] # 0
          /\ \A q \in ports : q < got => keys[q] # 0
          /\ \A q \in ports \ {got} : after[q] = keys[q]

\* C19: allocateVncPort (in POST /session) and allocateMcpPort (in
\* createSession), run with no other allocator in between, return the lowest
\* port of the range that has no live key and create exactly that key, and
\* return null exactly when every port has a live key, changing none.
C19_AllocatesLowestFree ==
  [][/\ Post =>
          AllocatesLowest(vncKeys, vncKeys', VncPorts,
                          IF Exists(rec'[created + 1]) THEN rec'[created + 1].vncPort ELSE 0)
     /\ \A t \in tasks :
          CreateContainer(t) =>
            \A u \in tasks' \ tasks :
              AllocatesLowest(mcpKeys, mcpKeys', McpPorts, u.mcpPort)]_vars

\* C19, its case: a scan has passed a port with a live key and has taken the
\* last port of the range.
C19_ScanPassedLiveKey ==
  \E s \in Sessions :
    /\ vncKeys[vncPortRangeEnd] = s
    /\ vncKeys[vncPortRangeStart] # 0
    /\ rec[s].vncPort = vncPortRangeEnd

\* ------------------------------------------- the port keys and their leases

\* The allocators taken one store command at a time, with the process that
\* runs them able to die between two commands. The session keys play no part.

Ranges == {"vnc", "mcp"}
RangeStart(r) == IF r = "vnc" THEN vncPortRangeStart ELSE mcpPortRangeStart
RangeEnd(r) == IF r = "vnc" THEN vncPortRangeEnd ELSE mcpPortRangeEnd
RangeKeys(r) == IF r = "vnc" THEN vncKeys ELSE mcpKeys

notPorts ==
  <<rec, index, byWorker, containers, queue, delayed, tasks, agents, timers,
    alive, created, used, ttl>>

\* What a command on a key of range r leaves of the two ranges.
SetRangeKeys(r, keys) ==
  IF r = "vnc"
  THEN vncKeys' = keys /\ UNCHANGED mcpKeys
  ELSE mcpKeys' = keys /\ UNCHANGED vncKeys

\* allocateVncPort / allocateMcpPort is called, for the request or job of
\* session sid: port = start.
AllocateStart(r, sid) ==
  /\ alloc = NoCall
  /\ alloc' = [range |-> r, port |-> RangeStart(r), sid |-> sid, pc |-> "setnx"]
  /\ UNCHANGED <<router, extra, notPorts, vncKeys, mcpKeys, unleased>>

\* redis.setnx(key, "1"): on success the key exists and has no expiry yet; on
\* failure port++, and null is returned when port passes end.
AllocateSetnx ==
  /\ alloc.pc = "setnx"
  /\ IF RangeKeys(alloc.range)[alloc.port] = 0
     THEN /\ SetRangeKeys(alloc.range, ClaimPort(RangeKeys(alloc.range), alloc.port, alloc.sid))
          /\ unleased' = unleased \cup {alloc.port}
          /\ alloc' = [alloc EXCEPT !.pc = "expire"]
     ELSE /\ alloc' = IF alloc.port < RangeEnd(alloc.range)
                      THEN [alloc EXCEPT !.port = alloc.port + 1]
                      ELSE NoCall
          /\ UNCHANGED <<vncKeys, mcpKeys, unleased>>
  /\ UNCHANGED <<router, extra, notPorts>>

\* redis.expire(key, 7200), then return port.
AllocateExpire ==
  /\ alloc.pc = "expire"
  /\ unleased' = unleased \ {alloc.port}
  /\ alloc' = NoCall
  /\ UNCHANGED <<router, extra, notPorts, vncKeys, mcpKeys>>

\* The process making the call dies: the commands it has sent stay done, the
\* rest of the call never happens.
AllocateCrash ==
  /\ alloc # NoCall
  /\ alloc' = NoCall
  /\ UNCHANGED <<router, extra, notPorts, vncKeys, mcpKeys, unleased>>

\* releaseVncPort / releaseMcpPort, by a holder: a port is known to a holder
\* once allocate has returned it, that is after its expire.
ReleaseKey(r, p) ==
  /\ RangeKeys(r)[p] # 0
  /\ p \notin unleased
  /\ SetRangeKeys(r, ReleasePort(RangeKeys(r), p))
  /\ UNCHANGED <<router, extra, notPorts, unleased, alloc>>

LeaseNext ==
  \/ \E r \in Ranges, sid \in Sessions : AllocateStart(r, sid)
  \/ AllocateSetnx
  \/ AllocateExpire
  \/ AllocateCrash
  \/ \E r \in Ranges : \E p \in RangeStart(r)..RangeEnd(r) : ReleaseKey(r, p)
  \/ \E p \in VncPorts : ExpireVncKey(p)
  \/ \E p \in McpPorts : ExpireMcpKey(p)

LeaseSpec == Init /\ [][LeaseNext]_vars

\* A call whose process stays up goes on to its next command, and the store
\* expires each key that has an expiry; nothing makes a process crash, a
\* caller call, or a holder release.
LeaseFairSpec ==
  /\ LeaseSpec
  /\ WF_vars(AllocateSetnx)
  /\ WF_vars(AllocateExpire)
  /\ \A p \in VncPorts : WF_vars(ExpireVncKey(p))
  /\ \A p \in McpPorts : WF_vars(ExpireMcpKey(p))

\* C20: every port key that exists is eventually freed, with no release and
\* no reaper, whatever point its holder crashed at: the key carries the 2 hour
\* lease from the moment it exists.
C20_PortKeyIsFreed ==
  /\ \A p \in VncPorts : (vncKeys[p] # 0) ~> (vncKeys[p] = 0)
  /\ \A p \in McpPorts : (mcpKeys[p] # 0) ~> (mcpKeys[p] = 0)

\* C20, its case: the holder has crashed between the setnx and the expire of
\* an allocation, and the key it set exists with no expiry.
C20_CrashedBeforeExpire ==
  /\ alloc = NoCall
  /\ \E p \in unleased : p \in VncPorts /\ vncKeys[p] \in Sessions

\* ---------------------------------------------------- the session's log list

Min(a, b) == IF a < b THEN a ELSE b

\* LTRIM key 0 count-1: the first `count` entries are kept.
LtrimHead(list, start, stop) == SubSeq(list, 1, Min(Len(list), 0 - start))

\* LTRIM key start stop, as the store runs it: a negative index counts from
\* the end of the list (-1 is the last entry), both are clamped to the list,
\* and an empty range leaves the empty list.
Ltrim(list, start, stop) ==
  LET len == Len(list)
      from == IF start < 0 THEN (IF len + start < 0 THEN 0 ELSE len + start) ELSE start
      to == IF stop < 0 THEN len + stop ELSE (IF stop >= len THEN len - 1 ELSE stop) IN
    IF from > to \/ from >= len THEN <<>> ELSE SubSeq(list, from + 1, to + 1)

\* addSessionLog, first command: redis.rpush(key, JSON.stringify(log)).
LogRpush(c) ==
  /\ logCalls[c] = "idle"
  /\ logged < MaxAppends
  /\ logged' = logged + 1
  /\ logList' = Append(logList, logged + 1)
  /\ logCalls' = [logCalls EXCEPT ![c] = "ltrim"]
  /\ UNCHANGED <<notLog>>

\* redis.ltrim(key, -1000, -1).
LogLtrim(c) ==
  /\ logCalls[c] = "ltrim"
  /\ logList' = Ltrim(logList, 0 - LogCap, 0 - 1)
  /\ logCalls' = [logCalls EXCEPT ![c] = "ttl"]
  /\ UNCHANGED <<notLog, logged>>

\* redis.ttl(record), which is positive while the record is live.
LogTtl(c) ==
  /\ logCalls[c] = "ttl"
  /\ logCalls' = [logCalls EXCEPT ![c] = "expire"]
  /\ UNCHANGED <<notLog, logList, logged>>

\* redis.expire(key, ttl), and the call returns.
LogExpire(c) ==
  /\ logCalls[c] = "expire"
  /\ logCalls' = [logCalls EXCEPT ![c] = "idle"]
  /\ UNCHANGED <<notLog, logList, logged>>

LogNext ==
  \/ \E c \in LogWriters : LogRpush(c)
  \/ \E c \in LogWriters : LogLtrim(c)
  \/ \E c \in LogWriters : LogTtl(c)
  \/ \E c \in LogWriters : LogExpire(c)

LogSpec == Init /\ [][LogNext]_vars

\* The last min(n, cap) of n entries appended, in append order.
LastAppended(n, cap) == [i \in 1..Min(n, cap) |-> n - Min(n, cap) + i]

Str(s) == [kind |-> "string", text |-> s, ms |-> 0]
Date(t) == [kind |-> "Date", text |-> "", ms |-> t]

\* Date.prototype.toJSON: the ISO string of the instant.
ToISOString(d) == [kind |-> "string", text |-> "ISO-8601", ms |-> d.ms]

\* JSON.stringify(session): every Date becomes its ISO string. The text is
\* written here as the fields it spells out.
JsonStringify(obj) ==
  [f \in DOMAIN obj |-> IF obj[f].kind = "Date" THEN ToISOString(obj[f]) ELSE obj[f]]

\* JSON.parse(data): the fields the text spells out; a string stays a string.
JsonParse(text) == text

Prompts == {"", "make a hello world", "ls"}

\* The Session object createSession builds (timeout not given).
FreshSession(p, t) ==
  [id |-> Str("nanoid"), status |-> Str("initializing"), initialPrompt |-> Str(p),
   createdAt |-> Date(t), updatedAt |-> Date(t), expiresAt |-> Date(t + SessionTtl)]

\* { ...session, ...updates, updatedAt: new Date() }
Spread(session, updates, t) ==
  [f \in DOMAIN session \cup DOMAIN updates \cup {"updatedAt"} |->
     IF f = "updatedAt" THEN Date(t)
     ELSE IF f \in DOMAIN updates THEN updates[f] ELSE session[f]]

\* The empty patch {}.
EmptyPatch == <<>>

\* SessionManager.createSession(p): setex(key, timeout, JSON.stringify(session)).
DocCreate(p) ==
  /\ calls = <<>>
  /\ doc' = JsonStringify(FreshSession(p, now))
  /\ docTtl' = SessionTtl
  /\ calls' = <<"create">>
  /\ UNCHANGED <<notDoc, now, reads, update>>

\* SessionManager.getSession(id): null when the key is absent, else JSON.parse.
DocGet ==
  /\ calls # <<>>
  /\ Len(calls) < MaxDocCalls
  /\ update = NoUpdate
  /\ reads' = Append(reads, IF doc = NoDoc THEN NoDoc ELSE JsonParse(doc))
  /\ calls' = Append(calls, "get")
  /\ UNCHANGED <<notDoc, doc, docTtl, now, update>>

\* updateSession(id, {}), first command: getSession; null ends the call.
DocUpdateGet ==
  /\ calls # <<>>
  /\ Len(calls) < MaxDocCalls
  /\ update = NoUpdate
  /\ calls' = Append(calls, "update")
  /\ update' = IF doc = NoDoc THEN NoUpdate
               ELSE [pc |-> "ttl", session |-> JsonParse(doc), ttl |-> 0]
  /\ UNCHANGED <<notDoc, doc, docTtl, now, reads>>

\* updatedSession is built, then redis.ttl(key).
DocUpdateTtl ==
  /\ update.pc = "ttl"
  /\ update' = [pc |-> "setex", session |-> Spread(update.session, EmptyPatch, now),
                ttl |-> docTtl]
  /\ UNCHANGED <<notDoc, doc, docTtl, now, reads, calls>>

\* if (ttl > 0) redis.setex(key, ttl, JSON.stringify(updatedSession)); the
\* patch names no worker, and the call returns.
DocUpdateSetex ==
  /\ update.pc = "setex"
  /\ IF update.ttl > 0
     THEN doc' = JsonStringify(update.session) /\ docTtl' = update.ttl
     ELSE UNCHANGED <<doc, docTtl>>
  /\ update' = NoUpdate
  /\ UNCHANGED <<notDoc, now, reads, calls>>

\* A second passes; the key is gone when its expiry is reached.
DocTick ==
  /\ now < MaxClock
  /\ now' = now + 1
  /\ docTtl' = SecondLater(docTtl)
  /\ doc' = IF docTtl = 1 THEN NoDoc ELSE doc
  /\ UNCHANGED <<notDoc, reads, calls, update>>

DocNext ==
  \/ \E p \in Prompts : DocCreate(p)
  \/ DocGet
  \/ DocUpdateGet
  \/ DocUpdateTtl
  \/ DocUpdateSetex
  \/ DocTick

DocSpec == Init /\ [][DocNext]_vars

\* Two records equal in every field except updatedAt.
EqualButUpdatedAt(a, b) ==
  /\ DOMAIN a = DOMAIN b
  /\ \A f \in DOMAIN a \ {"updatedAt"} : a[f] = b[f]

\* C22: after createSession(p), any two records that getSession returns with
\* only updateSession(id, {}) calls in between are equal in every field except
\* updatedAt, and an update never leaves the key more seconds to live than it
\* had (nor a key where there was none).
C22_EmptyUpdateKeepsRecordAndTtl ==
  /\ [](\A i, j \in DOMAIN reads :
          reads[i] # NoDoc /\ reads[j] # NoDoc => EqualButUpdatedAt(reads[i], reads[j]))
  /\ [][DocUpdateSetex => docTtl' <= docTtl]_vars

\* C22, its case: a record was read before and after an update that wrote.
C22_ReadUpdatedRecord ==
  /\ calls = <<"create", "get", "update", "get">>
  /\ reads[1] # NoDoc /\ reads[2] # NoDoc
  /\ reads[1].updatedAt # reads[2].updatedAt

\* ------------------------------------------- POST /session, step by step

\* The handler one await at a time, several requests at once; no worker runs.

\* SessionManager.createSession.
PostCreateSession(r) ==
  /\ posts[r].pc = "start"
  /\ created < MaxSessions
  /\ created' = created + 1
  /\ rec' = [rec EXCEPT ![created + 1] = NewSession]
  /\ index' = index \cup {created + 1}
  /\ posts' = [posts EXCEPT ![r] = [pc |-> "allocate", sid |-> created + 1, vncPort |-> 0]]
  /\ UNCHANGED <<notPost, byWorker, vncKeys, mcpKeys, containers, queue, delayed, tasks,
                 agents, timers, alive, used, responses, totalSessions>>

\* SessionManager.allocateVncPort, and the test of what it returned.
PostAllocate(r) ==
  /\ posts[r].pc = "allocate"
  /\ LET port == AllocatePort(vncKeys, vncPortRangeStart, vncPortRangeEnd) IN
       IF port = 0
       THEN /\ posts' = [posts EXCEPT ![r].pc = "no_port"]
            /\ UNCHANGED vncKeys
       ELSE /\ posts' = [posts EXCEPT ![r].pc = "update", ![r].vncPort = port]
            /\ vncKeys' = ClaimPort(vncKeys, port, posts[r].sid)
  /\ UNCHANGED <<notPost, rec, index, byWorker, mcpKeys, containers, queue, delayed, tasks,
                 agents, timers, alive, created, used, responses, totalSessions>>

\* if (!vncPort): deleteSession(session.id), set.status = 503, return.
PostNoPort(r) ==
  /\ posts[r].pc = "no_port"
  /\ DeleteSession(posts[r].sid)
  /\ responses' = [responses EXCEPT ![r] = 503]
  /\ posts' = [posts EXCEPT ![r].pc = "done"]
  /\ UNCHANGED <<notPost, vncKeys, mcpKeys, containers, queue, delayed, tasks, agents,
                 timers, alive, created, used, totalSessions>>

\* updateSession(session.id, { vncPort }).
PostUpdateSession(r) ==
  /\ posts[r].pc = "update"
  /\ UpdateNow(posts[r].sid, [vncPort |-> posts[r].vncPort])
  /\ posts' = [posts EXCEPT ![r].pc = "enqueue"]
  /\ UNCHANGED <<notPost, index, vncKeys, mcpKeys, containers, queue, delayed, tasks,
                 agents, timers, alive, created, used, responses, totalSessions>>

\* queue.add(create_session, ..., { priority: 1 }).
PostEnqueue(r) ==
  /\ posts[r].pc = "enqueue"
  /\ queue' = queue \cup {Job("create_session", posts[r].sid, posts[r].vncPort, 0, 0, 1)}
  /\ posts' = [posts EXCEPT ![r].pc = "incr"]
  /\ UNCHANGED <<notPost, rec, index, byWorker, vncKeys, mcpKeys, containers, delayed,
                 tasks, agents, timers, alive, created, used, responses, totalSessions>>

\* redis.incr("metrics:total_sessions"), set.status = 201, return.
PostRespond(r) ==
  /\ posts[r].pc = "incr"
  /\ totalSessions' = totalSessions + 1
  /\ responses' = [responses EXCEPT ![r] = 201]
  /\ posts' = [posts EXCEPT ![r].pc = "done"]
  /\ UNCHANGED <<notPost, lifecycle>>

PostNext ==
  \/ \E r \in Requests : PostCreateSession(r)
  \/ \E r \in Requests : PostAllocate(r)
  \/ \E r \in Requests : PostNoPort(r)
  \/ \E r \in Requests : PostUpdateSession(r)
  \/ \E r \in Requests : PostEnqueue(r)
  \/ \E r \in Requests : PostRespond(r)
  \/ \E p \in VncPorts : ExpireVncKey(p)

PostSpec == Init /\ [][PostNext]_vars

\* C23: a request answered 503 has left nothing: its session has no record
\* and no index entry, no job names it, no port key records it, and
\* metrics:total_sessions counts the requests answered 201 only. And a request
\* that found no free port answers 503.
C23_NoPortLeavesNoTrace ==
  /\ \A r \in Requests :
       /\ responses[r] = 503 =>
            /\ ~Exists(rec[posts[r].sid])
            /\ posts[r].sid \notin index
            /\ \A j \in queue : j.sid # posts[r].sid
            /\ \A p \in VncPorts : vncKeys[p] # posts[r].sid
       /\ posts[r].pc = "done" /\ posts[r].vncPort = 0 => responses[r] = 503
  /\ totalSessions = Cardinality({r \in Requests : responses[r] = 201})

\* C23, its case: a request has been answered 503 while the session of
\* another holds a port.
C23_Answered503 ==
  \E r, q \in Requests :
    /\ responses[r] = 503
    /\ posts[q].vncPort # 0

\* ------------------------------------------- DELETE /session/:id, its effect

\* C24: when DELETE /session/:id of a session whose record it found answers
\* 202, the status of the session is terminating and a terminate_session job
\* of the session is in the queue; a DELETE that finds no record starts
\* nothing and changes no key.
C24_DeleteSetsTerminatingAndEnqueues ==
  [][/\ \A t \in tasks :
          DeleteEnqueue(t) =>
            /\ rec'[t.sid].status = "terminating"
            /\ \E j \in queue' \ queue : j.type = "terminate_session" /\ j.sid = t.sid
     /\ \A sid \in Sessions :
          DeleteStart(sid) /\ ~Exists(rec[sid]) =>
            UNCHANGED <<rec, index, byWorker, vncKeys, mcpKeys, queue, delayed, tasks>>]_vars

\* C24, its case: a DELETE has answered 202 and its job waits in the queue.
C24_DeleteAnswered ==
  \E j \in queue :
    /\ j.type = "terminate_session"
    /\ \A t \in tasks : t.kind # "delete"

\* ------------------------------------- createSession: what it publishes

\* A ChatMessage on the session's channel (the timestamp left out).
ChatMessage(type, content) == [type |-> type, content |-> content]

ReadyMessage == ChatMessage("system_update", "Session is ready. You can start chatting!")

\* The events an agent emits while it works on a task.
AgentOutput == {"agent_thinking", "agent_action", "agent_response", "error"}

\* CodingAgent.emitEvent -> onMessage -> SessionRouter.publish.
Emit(type, content) == feed' = Append(feed, ChatMessage(type, content))

\* The job reaches startAgent with the initialPrompt of its data; the agent
\* is made and initialize() emits its first event.
StartAgentInitialize(p) ==
  /\ stage = "job"
  /\ Emit("system_update", "Agent initialized and ready")
  /\ agentTask' = p
  /\ stage' = IF p # "" THEN "process_input" ELSE "set_ready"
  /\ UNCHANGED <<notFeed, rounds>>

\* initialize(): if (initialPrompt) processMessage(initialPrompt), which
\* invokes the graph; its first node.
ProcessInput ==
  /\ stage = "process_input"
  /\ Emit("agent_thinking", "Processing your request...")
  /\ stage' = "plan"
  /\ UNCHANGED <<notFeed, agentTask, rounds>>

Plan ==
  /\ stage = "plan"
  /\ Emit("agent_thinking", "Creating a plan...")
  /\ stage' = "execute"
  /\ UNCHANGED <<notFeed, agentTask, rounds>>

\* execute: a tool call that completes, or one that fails.
Execute ==
  /\ stage = "execute"
  /\ \/ Emit("agent_action", "Executing")
     \/ Emit("error", "Tool execution failed")
  /\ stage' = "reflect"
  /\ rounds' = rounds + 1
  /\ UNCHANGED <<notFeed, agentTask>>

\* reflect, and shouldContinue: back to execute, or on to respond.
Reflect ==
  /\ stage = "reflect"
  /\ Emit("agent_thinking", "Analyzing progress...")
  /\ \/ rounds < MaxRounds /\ stage' = "execute"
     \/ stage' = "respond"
  /\ UNCHANGED <<notFeed, agentTask, rounds>>

\* respond ends the graph, processMessage, initialize and startAgent.
Respond ==
  /\ stage = "respond"
  /\ Emit("agent_response", "done")
  /\ stage' = "set_ready"
  /\ agentTask' = ""
  /\ rounds' = 0
  /\ UNCHANGED notFeed

\* A node throws: processMessage catches it and emits an error event, and
\* initialize returns all the same.
GraphThrows ==
  /\ stage \in {"process_input", "plan", "execute", "reflect", "respond"}
  /\ Emit("error", "Agent error")
  /\ stage' = "set_ready"
  /\ agentTask' = ""
  /\ rounds' = 0
  /\ UNCHANGED notFeed

\* Back in createSession: updateSessionStatus(ready), the log line, and the
\* publish of the ready message.
PublishReady ==
  /\ stage = "set_ready"
  /\ feed' = Append(feed, ReadyMessage)
  /\ stage' = "done"
  /\ UNCHANGED <<notFeed, agentTask, rounds>>

FeedNext ==
  \/ \E p \in Prompts : StartAgentInitialize(p)
  \/ ProcessInput
  \/ Plan
  \/ Execute
  \/ Reflect
  \/ Respond
  \/ GraphThrows
  \/ PublishReady

FeedSpec == Init /\ [][FeedNext]_vars

\* C25: what a subscriber connected from the start sees for a session made
\* with an initial prompt: every agent output is preceded by a user_prompt
\* message, and that one by the ready message.
C25_ReadyThenPromptThenOutput ==
  \A k \in DOMAIN feed :
    feed[k].type \in AgentOutput =>
      \E i, j \in 1..k : i < j /\ j < k /\ feed[i] = ReadyMessage /\ feed[j].type = "user_prompt"

\* C25, its case: createSession has completed for a session with an initial
\* prompt, the agent has answered it and the ready message is out.
C25_HappyPathDone ==
  /\ stage = "done"
  /\ \E i, k \in DOMAIN feed : feed[i] = ReadyMessage /\ feed[k].type = "agent_response"

\* ------------------------------------------------------- the chat socket

\* The text of the n-th frame or message of the run.
MsgText == <<"m1", "m2", "m3", "m4">>

ConnectedFrame(status) ==
  [type |-> "system_update", content |-> "Connected to session", session_status |-> status]
ErrorFrame(text) == [type |-> "error", error |-> text]
AckFrame == ChatMessage("system_update", "Message received and queued for processing")

\* The store answers the commands of one connection in the order they were
\* sent: each then runs when its command is the oldest unanswered.

Oldest(command) == pipeline # <<>> /\ Head(pipeline) = command

\* ws.send(frame): a frame goes out while the socket is open.
WsSend(sends) == frames' = IF ws = "open" THEN frames \o sends ELSE frames

\* redis.lrange(key, start, stop): the same range of the list as ltrim keeps.
Lrange(list, start, stop) == Ltrim(list, start, stop)

\* The session as the rest of the system has left it when the socket opens.
ChatSessionIs(status) ==
  /\ chatRec = "unknown"
  /\ chatRec' = status
  /\ UNCHANGED <<notChat, ws, openCall, frames, wsSubscribed, activeSub, stored, replayed,
                 inbound, pendingOps, chatJobs, outMsg, sent, pipeline>>

\* chatWebSocketHandler.open: getSession is called, and the handler returns.
WsOpen ==
  /\ chatRec # "unknown"
  /\ ws = "none"
  /\ ws' = "open"
  /\ openCall' = "lookup"
  /\ pipeline' = Append(pipeline, "open_get")
  /\ UNCHANGED <<notChat, chatRec, frames, wsSubscribed, activeSub, stored, replayed,
                 inbound, pendingOps, chatJobs, outMsg, sent>>

\* open, the then of getSession: an error frame and ws.close() (whose close
\* event finds nothing in activeSubscriptions) for a missing, terminated or
\* error session; else subscribe, activeSubscriptions.set, the Connected
\* frame, and getSessionMessages(sessionId, 50) is called.
OpenLookupDone ==
  /\ openCall = "lookup"
  /\ Oldest("open_get")
  /\ pipeline' = IF chatRec \in {"absent", "terminated", "error"} THEN Tail(pipeline)
                  ELSE Append(Tail(pipeline), "lrange")
  /\ IF chatRec \in {"absent", "terminated", "error"}
     THEN /\ WsSend(<<ErrorFrame(IF chatRec = "absent" THEN "Session not found"
                                 ELSE "Session is over")>>)
          /\ ws' = "closed"
          /\ openCall' = "rejected"
          /\ UNCHANGED <<wsSubscribed, activeSub>>
     ELSE /\ wsSubscribed' = TRUE
          /\ activeSub' = TRUE
          /\ WsSend(<<ConnectedFrame(chatRec)>>)
          /\ openCall' = "accepted"
          /\ UNCHANGED ws
  /\ UNCHANGED <<notChat, chatRec, stored, replayed, inbound, pendingOps, chatJobs,
                 outMsg, sent>>

\* open, the then of getSessionMessages: each recent message is sent.
OpenReplay ==
  /\ openCall = "accepted"
  /\ Oldest("lrange")
  /\ pipeline' = Tail(pipeline)
  /\ replayed' = Lrange(stored, 0 - ReplayLimit, 0 - 1)
  /\ WsSend(replayed')
  /\ openCall' = "replayed"
  /\ UNCHANGED <<notChat, chatRec, ws, wsSubscribed, activeSub, stored, inbound,
                 pendingOps, chatJobs, outMsg, sent>>

\* The peer closes the socket; chatWebSocketHandler.close calls the
\* unsubscribe it finds in activeSubscriptions, if any.
WsClose ==
  /\ ws = "open"
  /\ ws' = "closed"
  /\ wsSubscribed' = IF activeSub THEN FALSE ELSE wsSubscribed
  /\ activeSub' = FALSE
  /\ UNCHANGED <<notChat, chatRec, openCall, frames, stored, replayed, inbound,
                 pendingOps, chatJobs, outMsg, sent, pipeline>>

\* A worker's onMessage, first half: SessionRouter.publish, which reaches the
\* socket's callback if it is registered; the callback is ws.send(message).
WorkerPublish ==
  /\ chatRec \notin {"unknown", "absent"}
  /\ outMsg = 0
  /\ sent < MaxChatMsgs
  /\ sent' = sent + 1
  /\ outMsg' = sent + 1
  /\ IF wsSubscribed
     THEN WsSend(<<ChatMessage("agent_response", MsgText[sent + 1])>>)
     ELSE UNCHANGED frames
  /\ UNCHANGED <<notChat, chatRec, ws, openCall, wsSubscribed, activeSub, stored,
                 replayed, inbound, pendingOps, chatJobs, pipeline>>

\* onMessage, second half: SessionManager.addSessionMessage.
WorkerStore ==
  /\ outMsg # 0
  /\ stored' = Append(stored, ChatMessage("agent_response", MsgText[outMsg]))
  /\ outMsg' = 0
  /\ UNCHANGED <<notChat, chatRec, ws, openCall, frames, wsSubscribed, activeSub,
                 replayed, inbound, pendingOps, chatJobs, sent, pipeline>>

\* chatWebSocketHandler.message with a frame UserMessageSchema accepts:
\* getSession is called. One the schema rejects gets an error frame at once.
WsMessage(valid) ==
  /\ ws = "open"
  /\ inbound = 0 /\ pendingOps = {}
  /\ sent < MaxChatMsgs
  /\ sent' = sent + 1
  /\ IF valid
     THEN /\ inbound' = sent + 1
          /\ pipeline' = Append(pipeline, "message_get")
          /\ UNCHANGED frames
     ELSE /\ WsSend(<<ErrorFrame("Invalid message format")>>)
          /\ UNCHANGED <<inbound, pipeline>>
  /\ UNCHANGED <<notChat, chatRec, ws, openCall, wsSubscribed, activeSub, stored,
                 replayed, pendingOps, chatJobs, outMsg>>

\* A call the message handler has started for frame n.
Op(o, n) == [op |-> o, msg |-> n]
Pending(o) == {c \in pendingOps : c.op = o}

\* message, the then of getSession: an error frame for a missing session or
\* one that is not ready or running; else addSessionMessage,
\* updateSessionStatus(running) and queue.add are called, none awaited, and
\* the acknowledgement is sent.
MessageLookupDone ==
  /\ inbound # 0
  /\ Oldest("message_get")
  /\ pipeline' = IF chatRec \in {"ready", "running"}
                  THEN Tail(pipeline) \o <<"rpush", "status_get">>
                  ELSE Tail(pipeline)
  /\ IF chatRec \in {"ready", "running"}
     THEN /\ pendingOps' = {Op(o, inbound) : o \in {"store", "status", "enqueue"}}
          /\ WsSend(<<AckFrame>>)
     ELSE /\ WsSend(<<ErrorFrame(IF chatRec = "absent" THEN "Session not found"
                                 ELSE "Session is not ready")>>)
          /\ UNCHANGED pendingOps
  /\ inbound' = 0
  /\ UNCHANGED <<notChat, chatRec, ws, openCall, wsSubscribed, activeSub, stored,
                 replayed, chatJobs, outMsg, sent>>

\* The three calls complete: the rpush of the message and the write of status
\* running in the order they were sent on the store connection, the add of
\* the job, on the queue's own connection, whenever.
StoreDone ==
  /\ Oldest("rpush")
  /\ pipeline' = Tail(pipeline)
  /\ \E c \in Pending("store") :
       /\ pendingOps' = pendingOps \ {c}
       /\ stored' = Append(stored, ChatMessage("user_prompt", MsgText[c.msg]))
  /\ UNCHANGED <<notChat, chatRec, ws, openCall, frames, wsSubscribed, activeSub,
                 replayed, inbound, chatJobs, outMsg, sent>>

StatusDone ==
  /\ Pending("status") # {}
  /\ Oldest("status_get")
  /\ pipeline' = Tail(pipeline)
  /\ pendingOps' = pendingOps \ Pending("status")
  /\ chatRec' = IF chatRec = "absent" THEN chatRec ELSE "running"
  /\ UNCHANGED <<notChat, ws, openCall, frames, wsSubscribed, activeSub, stored,
                 replayed, inbound, chatJobs, outMsg, sent>>

EnqueueDone ==
  /\ Pending("enqueue") # {}
  /\ pendingOps' = pendingOps \ Pending("enqueue")
  /\ chatJobs' = chatJobs + 1
  /\ UNCHANGED <<notChat, chatRec, ws, openCall, frames, wsSubscribed, activeSub,
                 stored, replayed, inbound, outMsg, sent, pipeline>>

\* queue.add rejects (the store cannot be reached): nobody holds the promise.
EnqueueFails ==
  /\ Pending("enqueue") # {}
  /\ pendingOps' = pendingOps \ Pending("enqueue")
  /\ UNCHANGED <<notChat, chatRec, ws, openCall, frames, wsSubscribed, activeSub,
                 stored, replayed, inbound, chatJobs, outMsg, sent, pipeline>>

ChatNext ==
  \/ \E status \in {"absent"} \cup SessionStatus : ChatSessionIs(status)
  \/ WsOpen
  \/ OpenLookupDone
  \/ OpenReplay
  \/ WsClose
  \/ WorkerPublish
  \/ WorkerStore
  \/ \E valid \in BOOLEAN : WsMessage(valid)
  \/ MessageLookupDone
  \/ StoreDone
  \/ StatusDone
  \/ EnqueueDone
  \/ EnqueueFails

ChatSpec == Init /\ [][ChatNext]_vars

\* The frames of the socket that come from the session: the Connected frame
\* and the session's messages, without the answers to the socket's own
\* inbound frames (acknowledgements and error frames).
IsConnected(frame) == "session_status" \in DOMAIN frame
IsSessionFrame(frame) == IsConnected(frame) \/ frame.type \in {"agent_response", "user_prompt"}
SessionFrames == SelectSeq(frames, IsSessionFrame)

\* C26: once the open handler has accepted the session, the first frame on
\* the socket is the Connected frame, and once it has replayed, the frames
\* after it are the last ReplayLimit stored messages in stored order; once it
\* has rejected the session, an error frame was the last frame, the socket is
\* closed and no subscription is registered.
C26_ConnectedThenHistory ==
  /\ openCall \in {"accepted", "replayed"} /\ SessionFrames # <<>> =>
       IsConnected(SessionFrames[1])
  /\ openCall = "replayed" /\ ws = "open" =>
       /\ Len(SessionFrames) >= 1 + Len(replayed)
       /\ SubSeq(SessionFrames, 2, 1 + Len(replayed)) = replayed
  /\ openCall = "rejected" =>
       /\ ws = "closed" /\ ~wsSubscribed /\ ~activeSub
       /\ frames # <<>> => frames[Len(frames)].type = "error"

\* C26, its case: the socket is open and stored messages have been replayed.
C26_HistoryReplayed ==
  /\ openCall = "replayed"
  /\ ws = "open"
  /\ replayed # <<>>

\* C27: the message handler sends the acknowledgement only when the job of
\* the frame is in the queue; for a session that is not ready or running it
\* sends an error frame, starts no call and leaves the socket open.
C27_AckOnlyWhenEnqueued ==
  [][MessageLookupDone =>
       IF chatRec \in {"ready", "running"}
       THEN frames' # frames => chatJobs' > chatJobs
       ELSE /\ pendingOps' = {} /\ stored' = stored /\ chatJobs' = chatJobs
            /\ ws' = ws
            /\ ws = "open" => frames'[Len(frames')].type = "error"]_vars

\* C27, its case: a frame has been acknowledged.
C27_Acknowledged ==
  \E k \in DOMAIN frames : frames[k] = AckFrame

\* C28: once the socket is closed and the open handler's lookup is answered,
\* the socket's callback is not registered in SessionRouter.
C28_ClosedSocketNotSubscribed ==
  ws = "closed" /\ openCall # "lookup" => ~wsSubscribed

\* C28, its case: the socket closed while the open handler's lookup was
\* pending, and the lookup has been answered since.
C28_ClosedDuringLookup ==
  /\ ws = "closed"
  /\ openCall = "accepted"
  /\ frames = <<>>

\* ------------------------------------------- the queue under steady load

\* The queue and the workers' slots alone: jobs keep arriving, a worker with a
\* free slot takes a waiting job of the most urgent priority (PickJob), and a
\* handler runs to its end. What the handlers do is left out.

\* queue.add of a job of some session: priority 1 for create_session and
\* process_message, 2 for terminate_session.
Enqueue(type, sid) ==
  /\ Cardinality(queue) < MaxWaiting
  /\ queue' = queue \cup {Job(type, sid, 0, 0, 0, 1)}
  /\ UNCHANGED <<router, extra, expiry, store, containers, delayed, tasks, agents, timers,
                 alive, created, used>>

\* The handler of a job returns and its slot is free again.
JobEnds(t) ==
  /\ t \in tasks
  /\ Drop(t)
  /\ UNCHANGED <<router, extra, expiry, store, containers, queue, delayed, agents, timers,
                 alive, created, used>>

QueueNext ==
  \/ \E type \in JobKinds, sid \in Sessions : Enqueue(type, sid)
  \/ \E w \in Workers : \E j \in queue : PickJob(w, j)
  \/ \E t \in tasks : JobEnds(t)

QueueSpec == Init /\ [][QueueNext]_vars

\* Every handler ends; a worker that can take a job takes one; and a
\* terminate_session job that can be taken again and again is taken. Nothing
\* makes a job arrive.
QueueFairSpec ==
  /\ QueueSpec
  /\ WF_vars(\E t \in tasks : JobEnds(t))
  /\ WF_vars(\E w \in Workers : \E j \in queue : PickJob(w, j))
  /\ \A sid \in Sessions :
       SF_vars(\E w \in Workers : PickJob(w, Job("terminate_session", sid, 0, 0, 0, 1)))

\* C29: every terminate_session job that waits in the queue is eventually
\* taken by a worker, also while jobs of priority 1 keep arriving.
C29_TerminateIsTaken ==
  \A sid \in Sessions :
    (Job("terminate_session", sid, 0, 0, 0, 1) \in queue)
      ~> (\E t \in tasks : t.kind = "terminate_session" /\ t.sid = sid)

\* C29, its case: a terminate_session job waits while a job of priority 1
\* waits too and every worker has a free slot.
C29_TerminateBehindOthers ==
  \E j, k \in queue :
    /\ j.type = "terminate_session"
    /\ Priority(k.type) < Priority(j.type)
    /\ tasks = {}

\* ===================================================== ShutdownSpec (worker)
\* One worker process: the 'ready' handler, the heartbeat, the jobs it runs
\* and the shutdown() call each SIGTERM or SIGINT starts.  Every await of the
\* source is a step; each updateWorkerStatus / refreshWorkerTTL call has a
\* store connection of its own, so their commands are ordered only by the
\* awaits of their own call.

Alive == ~exited

\* SET replaces the value and drops the expiry of the key.
RedisSet(value) ==
  /\ statusKey' = value
  /\ statusTtl' = FALSE

\* EXPIRE gives the key a TTL when the key exists.
RedisExpireStatus == statusTtl' = (statusKey # "absent")

RedisExpireJobs == jobsTtl' = (jobsKey # {})

\* worker.on('ready'): updateWorkerStatus('active') is started and not
\* awaited, then the heartbeat timer is set.
Ready ==
  /\ Alive
  /\ registered = "off"
  /\ ~closing
  /\ registered' = "set"
  /\ heartbeatInterval' = TRUE
  /\ UNCHANGED <<statusKey, statusTtl, jobsKey, jobsTtl, beat, shutdowns, cursor, entry, closing,
                 running, activeAgents, sessionStatus, exited>>
  /\ UNCHANGED notDown

\* updateWorkerStatus('active'), one command at a time.
UpdateWorkerStatusActive ==
  /\ Alive
  /\ registered \in {"set", "expire", "sadd", "srem", "expire_jobs"}
  /\ CASE registered = "set" ->
            /\ RedisSet("active")
            /\ registered' = "expire"
            /\ UNCHANGED <<jobsKey, jobsTtl>>
       [] registered = "expire" ->
            /\ RedisExpireStatus
            /\ registered' = "sadd"
            /\ UNCHANGED <<statusKey, jobsKey, jobsTtl>>
       [] registered = "sadd" ->
            /\ jobsKey' = jobsKey \cup {""}
            /\ registered' = "srem"
            /\ UNCHANGED <<statusKey, statusTtl, jobsTtl>>
       [] registered = "srem" ->
            /\ jobsKey' = jobsKey \ {""}
            /\ jobsTtl' = (jobsTtl /\ jobsKey' # {})
            /\ registered' = "expire_jobs"
            /\ UNCHANGED <<statusKey, statusTtl>>
       [] registered = "expire_jobs" ->
            /\ RedisExpireJobs
            /\ registered' = "done"
            /\ UNCHANGED <<statusKey, statusTtl, jobsKey>>
  /\ UNCHANGED <<heartbeatInterval, beat, shutdowns, cursor, entry, closing, running, activeAgents,
                 sessionStatus, exited>>
  /\ UNCHANGED notDown

\* The heartbeat timer fires and refreshWorkerTTL sends EXISTS.
HeartbeatFires ==
  /\ Alive
  /\ heartbeatInterval
  /\ beat = "idle"
  /\ beat' = "exists"
  /\ UNCHANGED <<statusKey, statusTtl, jobsKey, jobsTtl, registered, heartbeatInterval,
                 shutdowns, cursor, entry, closing, running, activeAgents, sessionStatus, exited>>
  /\ UNCHANGED notDown

\* refreshWorkerTTL: the answer to EXISTS, then the two EXPIREs.
RefreshWorkerTTL ==
  /\ Alive
  /\ beat # "idle"
  /\ CASE beat = "exists" ->
            /\ beat' = IF statusKey # "absent" THEN "expire_status" ELSE "idle"
            /\ UNCHANGED <<statusTtl, jobsTtl>>
       [] beat = "expire_status" ->
            /\ RedisExpireStatus
            /\ beat' = "expire_jobs"
            /\ UNCHANGED jobsTtl
       [] beat = "expire_jobs" ->
            /\ RedisExpireJobs
            /\ beat' = "idle"
            /\ UNCHANGED statusTtl
  /\ UNCHANGED <<statusKey, jobsKey, registered, heartbeatInterval, shutdowns, cursor, entry,
                 closing, running, activeAgents, sessionStatus, exited>>
  /\ UNCHANGED notDown

\* The queue worker takes a create_session job of a session.
TakeJob(sid) ==
  /\ Alive
  /\ ~closing
  /\ sid \notin running
  /\ sessionStatus[sid] = "initializing"
  /\ running' = running \cup {sid}
  /\ UNCHANGED <<statusKey, statusTtl, jobsKey, jobsTtl, registered, heartbeatInterval, beat,
                 shutdowns, cursor, entry, closing, activeAgents, sessionStatus, exited>>
  /\ UNCHANGED notDown

\* The job ends: startAgent has put the agent in activeAgents and the
\* session is ready.
FinishJob(sid) ==
  /\ Alive
  /\ sid \in running
  /\ running' = running \ {sid}
  /\ activeAgents' = Append(activeAgents, sid)
  /\ sessionStatus' = [sessionStatus EXCEPT ![sid] = "ready"]
  /\ UNCHANGED <<statusKey, statusTtl, jobsKey, jobsTtl, registered, heartbeatInterval, beat,
                 shutdowns, cursor, entry, closing, exited>>
  /\ UNCHANGED notDown

\* process.on('SIGTERM' | 'SIGINT'): shutdown() starts, clears the heartbeat
\* timer and calls updateWorkerStatus('stopping').
Signal(r) ==
  /\ Alive
  /\ shutdowns[r] = "none"
  /\ \A q \in 1..(r - 1) : shutdowns[q] # "none"
  /\ heartbeatInterval' = FALSE
  /\ shutdowns' = [shutdowns EXCEPT ![r] = "set"]
  /\ UNCHANGED <<statusKey, statusTtl, jobsKey, jobsTtl, registered, beat, cursor, entry, closing,
                 running, activeAgents, sessionStatus, exited>>
  /\ UNCHANGED notDown

\* updateWorkerStatus('stopping'): SET, then EXPIRE 300.
UpdateWorkerStatusStopping(r) ==
  /\ Alive
  /\ shutdowns[r] \in {"set", "expire"}
  /\ IF shutdowns[r] = "set"
     THEN /\ RedisSet("stopping")
          /\ shutdowns' = [shutdowns EXCEPT ![r] = "expire"]
     ELSE /\ RedisExpireStatus
          /\ shutdowns' = [shutdowns EXCEPT ![r] = "close"]
          /\ UNCHANGED statusKey
  /\ UNCHANGED <<jobsKey, jobsTtl, registered, heartbeatInterval, beat, cursor, entry, closing,
                 running, activeAgents, sessionStatus, exited>>
  /\ UNCHANGED notDown

\* worker.close() is called: the worker takes no further job.
WorkerClose(r) ==
  /\ Alive
  /\ shutdowns[r] = "close"
  /\ closing' = TRUE
  /\ shutdowns' = [shutdowns EXCEPT ![r] = "closing"]
  /\ UNCHANGED <<statusKey, statusTtl, jobsKey, jobsTtl, registered, heartbeatInterval, beat,
                 cursor, entry, running, activeAgents, sessionStatus, exited>>
  /\ UNCHANGED notDown

\* worker.close() resolves once the jobs in flight have ended; cleanup() starts.
WorkerClosed(r) ==
  /\ Alive
  /\ shutdowns[r] = "closing"
  /\ running = {}
  /\ shutdowns' = [shutdowns EXCEPT ![r] = "cleanup"]
  /\ cursor' = [cursor EXCEPT ![r] = 0]
  /\ UNCHANGED entry
  /\ UNCHANGED <<statusKey, statusTtl, jobsKey, jobsTtl, registered, heartbeatInterval, beat,
                 closing, running, activeAgents, sessionStatus, exited>>
  /\ UNCHANGED notDown

\* cleanup(): the loop reaches the next entry of activeAgents and awaits
\* agent.shutdown(); past the last entry, activeAgents.clear() and
\* updateWorkerStatus('stopped') starts.
CleanupAgent(r) ==
  /\ Alive
  /\ shutdowns[r] = "cleanup"
  /\ IF cursor[r] < Len(activeAgents)
     THEN /\ entry' = [entry EXCEPT ![r] = activeAgents[cursor[r] + 1]]
          /\ shutdowns' = [shutdowns EXCEPT ![r] = "terminate"]
          /\ UNCHANGED activeAgents
     ELSE /\ activeAgents' = <<>>
          /\ shutdowns' = [shutdowns EXCEPT ![r] = "del_status"]
          /\ UNCHANGED entry
  /\ UNCHANGED <<statusKey, statusTtl, jobsKey, jobsTtl, registered, heartbeatInterval, beat,
                 cursor, closing, running, sessionStatus, exited>>
  /\ UNCHANGED notDown

\* cleanup(): agent.shutdown() has resolved; updateSessionStatus(sessionId,
\* 'terminated') of the entry the loop is at, and the loop moves on.
CleanupTerminate(r) ==
  /\ Alive
  /\ shutdowns[r] = "terminate"
  /\ sessionStatus' = [sessionStatus EXCEPT ![entry[r]] = "terminated"]
  /\ cursor' = [cursor EXCEPT ![r] = @ + 1]
  /\ entry' = [entry EXCEPT ![r] = 0]
  /\ shutdowns' = [shutdowns EXCEPT ![r] = "cleanup"]
  /\ UNCHANGED <<statusKey, statusTtl, jobsKey, jobsTtl, registered, heartbeatInterval, beat,
                 closing, running, activeAgents, exited>>
  /\ UNCHANGED notDown

\* updateWorkerStatus('stopped'): DEL of the status key, then of the jobs key.
UpdateWorkerStatusStopped(r) ==
  /\ Alive
  /\ shutdowns[r] \in {"del_status", "del_jobs"}
  /\ IF shutdowns[r] = "del_status"
     THEN /\ statusKey' = "absent"
          /\ statusTtl' = FALSE
          /\ shutdowns' = [shutdowns EXCEPT ![r] = "del_jobs"]
          /\ UNCHANGED <<jobsKey, jobsTtl>>
     ELSE /\ jobsKey' = {}
          /\ jobsTtl' = FALSE
          /\ shutdowns' = [shutdowns EXCEPT ![r] = "exit"]
          /\ UNCHANGED <<statusKey, statusTtl>>
  /\ UNCHANGED <<registered, heartbeatInterval, beat, cursor, entry, closing, running, activeAgents,
                 sessionStatus, exited>>
  /\ UNCHANGED notDown

\* process.exit(0): the process and every call in flight in it are gone.
ProcessExit(r) ==
  /\ Alive
  /\ shutdowns[r] = "exit"
  /\ exited' = TRUE
  /\ UNCHANGED <<statusKey, statusTtl, jobsKey, jobsTtl, registered, heartbeatInterval, beat,
                 shutdowns, cursor, entry, closing, running, activeAgents, sessionStatus>>
  /\ UNCHANGED notDown

\* The 300 seconds of a status key nobody refreshes any more have passed.
StatusKeyExpires ==
  /\ exited
  /\ statusKey # "absent"
  /\ statusTtl
  /\ statusKey' = "absent"
  /\ statusTtl' = FALSE
  /\ UNCHANGED <<jobsKey, jobsTtl, registered, heartbeatInterval, beat, shutdowns, cursor, entry,
                 closing, running, activeAgents, sessionStatus, exited>>
  /\ UNCHANGED notDown

ShutdownNext ==
  \/ Ready
  \/ UpdateWorkerStatusActive
  \/ HeartbeatFires
  \/ RefreshWorkerTTL
  \/ \E sid \in Sessions : TakeJob(sid)
  \/ \E sid \in Sessions : FinishJob(sid)
  \/ \E r \in 1..MaxSignals : Signal(r)
  \/ \E r \in 1..MaxSignals : UpdateWorkerStatusStopping(r)
  \/ \E r \in 1..MaxSignals : WorkerClose(r)
  \/ \E r \in 1..MaxSignals : WorkerClosed(r)
  \/ \E r \in 1..MaxSignals : CleanupAgent(r)
  \/ \E r \in 1..MaxSignals : CleanupTerminate(r)
  \/ \E r \in 1..MaxSignals : UpdateWorkerStatusStopped(r)
  \/ \E r \in 1..MaxSignals : ProcessExit(r)
  \/ StatusKeyExpires

ShutdownSpec == Init /\ [][ShutdownNext]_vars

\* C30: a shutdown() call, which writes stopping before anything else, shuts
\* an agent down only once the queue worker has closed and the jobs in flight
\* have ended, deletes the status key only once activeAgents is empty and no
\* session that had an agent is left ready, and when it calls process.exit
\* activeAgents is empty and the worker has no status key.
C30_ShutdownInOrderAndClean ==
  [][\A r \in 1..MaxSignals :
       /\ CleanupAgent(r) => closing /\ running = {}
       /\ UpdateWorkerStatusStopped(r) /\ shutdowns[r] = "del_status" =>
            /\ activeAgents = <<>>
            /\ \A sid \in Sessions : sessionStatus[sid] # "ready"
       /\ ProcessExit(r) => activeAgents = <<>> /\ statusKey = "absent"]_vars

\* A shutdown has ended after it shut an agent down and terminated its
\* session, and the worker has no key left.
C30_ShutdownEnded ==
  /\ exited
  /\ statusKey = "absent"
  /\ jobsKey = {}
  /\ \E sid \in Sessions : sessionStatus[sid] = "terminated"

\* ------------------------------------------------------------------- C31

\* C31: when terminateSession completes for a session whose record holds a
\* desktop port and a tool port, neither allocator key is held by the session
\* any more and the status is terminated.
C31_TerminateReleasesBothPorts ==
  [][\A t \in tasks :
       (/\ TerminateDone(t)
        /\ Exists(rec[t.sid])
        /\ rec[t.sid].vncPort # 0
        /\ rec[t.sid].mcpPort # 0
        /\ mcpKeys[rec[t.sid].mcpPort] = t.sid)
       => /\ vncKeys'[rec[t.sid].vncPort] # t.sid
          /\ mcpKeys'[rec[t.sid].mcpPort] # t.sid
          /\ rec'[t.sid].status = "terminated"]_vars

\* A session with a container and both ports was terminated by the job that
\* DELETE enqueued.
C31_TerminatedWithBothPorts ==
  \E sid \in Sessions :
    /\ Exists(rec[sid])
    /\ rec[sid].status = "terminated"
    /\ rec[sid].vncPort # 0
    /\ rec[sid].mcpPort # 0
    /\ rec[sid].containerId # 0

\* ================================================ DockerSpec (ContainerManager)
\* The docker daemon as stopContainer and removeContainer meet it.  A call
\* ends in the status code of the daemon's answer; the methods' catch blocks
\* decide which codes are swallowed.

\* POST /containers/<id>/stop: 204 stopped, 304 was not running, 404 no such
\* container.
StopStatus(state) ==
  CASE state = "running" -> 204
    [] state \in {"created", "exited"} -> 304
    [] state = "absent" -> 404

\* DELETE /containers/<id>?force=true: 204 removed, 404 no such container.
RemoveStatus(state) == IF state = "absent" THEN 404 ELSE 204

\* stopContainer rethrows every error but statusCode 304.
StopThrows(state) == StopStatus(state) \notin {204, 304}

\* removeContainer rethrows every error but statusCode 404.
RemoveThrows(state) == RemoveStatus(state) \notin {204, 404}

AfterStop(state) == IF StopStatus(state) = 204 THEN "exited" ELSE state

AfterRemove(state) == IF RemoveStatus(state) = 204 THEN "absent" ELSE state


DockerCall(op, id, threw) == [op |-> op, id |-> id, before |-> boxes[id], threw |-> threw]

\* createContainer and startContainer of some session, and a container whose
\* main process ends by itself.
DockerCreate(id) ==
  /\ boxes[id] = "absent"
  /\ boxes' = [boxes EXCEPT ![id] = "created"]
  /\ UNCHANGED <<dockerCall, dockerCalls, catchPc, mcpPortLocal, caught, attempted, propagated>>
  /\ UNCHANGED notCatch

DockerStart(id) ==
  /\ boxes[id] \in {"created", "exited"}
  /\ boxes' = [boxes EXCEPT ![id] = "running"]
  /\ UNCHANGED <<dockerCall, dockerCalls, catchPc, mcpPortLocal, caught, attempted, propagated>>
  /\ UNCHANGED notCatch

DockerExit(id) ==
  /\ boxes[id] = "running"
  /\ boxes' = [boxes EXCEPT ![id] = "exited"]
  /\ UNCHANGED <<dockerCall, dockerCalls, catchPc, mcpPortLocal, caught, attempted, propagated>>
  /\ UNCHANGED notCatch

StopContainer(id) ==
  /\ dockerCalls < MaxDockerCalls
  /\ dockerCalls' = dockerCalls + 1
  /\ dockerCall' = DockerCall("stop", id, StopThrows(boxes[id]))
  /\ boxes' = [boxes EXCEPT ![id] = AfterStop(@)]
  /\ UNCHANGED <<catchPc, mcpPortLocal, caught, attempted, propagated>>
  /\ UNCHANGED notCatch

RemoveContainerCall(id) ==
  /\ dockerCalls < MaxDockerCalls
  /\ dockerCalls' = dockerCalls + 1
  /\ dockerCall' = DockerCall("remove", id, RemoveThrows(boxes[id]))
  /\ boxes' = [boxes EXCEPT ![id] = AfterRemove(@)]
  /\ UNCHANGED <<catchPc, mcpPortLocal, caught, attempted, propagated>>
  /\ UNCHANGED notCatch

DockerNext ==
  \/ \E id \in 1..NumBoxes : DockerCreate(id)
  \/ \E id \in 1..NumBoxes : DockerStart(id)
  \/ \E id \in 1..NumBoxes : DockerExit(id)
  \/ \E id \in 1..NumBoxes : StopContainer(id)
  \/ \E id \in 1..NumBoxes : RemoveContainerCall(id)

DockerSpec == Init /\ [][DockerNext]_vars

\* C36: a stopContainer or removeContainer call on a container that is
\* already stopped, already removed or was never there returns normally.
C36_StopAndRemoveIdempotent ==
  dockerCall.op \in {"stop", "remove"} /\ dockerCall.before \in {"exited", "absent"}
    => ~dockerCall.threw

\* A second stop after a successful one returned normally.
C36_StoppedTwice ==
  /\ dockerCall.op = "stop"
  /\ dockerCall.before = "exited"
  /\ ~dockerCall.threw
  /\ dockerCalls >= 2

\* ============================================ CatchSpec (createSession, catch)
\* One createSession run whose try block throws, and its catch block one
\* awaited call at a time.  Every call on the store or on the daemon may
\* throw; what follows a throw is what the try / catch nesting of the source
\* makes follow.

\* Where the try block can throw: before a tool port is held (the first
\* updateSession, or "No available MCP ports"), in createContainer, between
\* createContainer and the record's containerId, in startContainer, and in
\* waitForVnc or startAgent.
ThrowPoints == {"assign", "container", "record", "start", "agent"}

CreateThrows(point) ==
  /\ catchPc = "try"
  /\ catchPc' = "status"
  /\ mcpPortLocal' = (point # "assign")
  /\ caught' = [caught EXCEPT !.mcpKey = (point # "assign"),
                              !.container = (point \in {"record", "start", "agent"}),
                              !.containerId = IF point \in {"start", "agent"} THEN 1 ELSE 0]
  /\ boxes' = [boxes EXCEPT ![1] = CASE point \in {"record", "start"} -> "created"
                                     [] point = "agent" -> "running"
                                     [] OTHER -> @]
  /\ UNCHANGED <<dockerCall, dockerCalls, attempted, propagated>>
  /\ UNCHANGED notCatch

\* catch: updateSessionStatus(sessionId, 'error', errorMessage), outside any
\* inner try: when it throws, that error leaves createSession.
CatchErrorStatus(ok) ==
  /\ catchPc = "status"
  /\ IF ok
     THEN /\ caught' = [caught EXCEPT !.status = "error"]
          /\ catchPc' = "get"
          /\ UNCHANGED propagated
     ELSE /\ propagated' = "status"
          /\ catchPc' = "done"
          /\ UNCHANGED caught
  /\ UNCHANGED <<boxes, dockerCall, dockerCalls, mcpPortLocal, attempted>>
  /\ UNCHANGED notCatch

\* Cleanup: getSession; session?.containerId decides on the container steps.
CatchGetSession(ok) ==
  /\ catchPc = "get"
  /\ catchPc' = IF ~ok THEN "rethrow" ELSE IF caught.containerId # 0 THEN "stop" ELSE "vnc"
  /\ UNCHANGED <<boxes, dockerCall, dockerCalls, mcpPortLocal, caught, attempted, propagated>>
  /\ UNCHANGED notCatch

\* stopContainer inside the inner try: a throw goes to the inner catch, past
\* removeContainer.
CatchStop(fault) ==
  /\ catchPc = "stop"
  /\ attempted' = attempted \cup {"stop"}
  /\ dockerCall' = DockerCall("stop", 1, fault \/ StopThrows(boxes[1]))
  /\ IF fault
     THEN UNCHANGED boxes
     ELSE boxes' = [boxes EXCEPT ![1] = AfterStop(@)]
  /\ catchPc' = IF fault \/ StopThrows(boxes[1]) THEN "vnc" ELSE "remove"
  /\ UNCHANGED <<dockerCalls, mcpPortLocal, caught, propagated>>
  /\ UNCHANGED notCatch

CatchRemove(fault) ==
  /\ catchPc = "remove"
  /\ attempted' = attempted \cup {"remove"}
  /\ dockerCall' = DockerCall("remove", 1, fault \/ RemoveThrows(boxes[1]))
  /\ IF fault
     THEN UNCHANGED boxes
     ELSE boxes' = [boxes EXCEPT ![1] = AfterRemove(@)]
  /\ catchPc' = "vnc"
  /\ UNCHANGED <<dockerCalls, mcpPortLocal, caught, propagated>>
  /\ UNCHANGED notCatch

\* releaseVncPort, releaseMcpPort (if mcpPort) and deleteSession share the
\* outer try: a throw of one goes to the outer catch, past the others.
CatchReleaseVnc(ok) ==
  /\ catchPc = "vnc"
  /\ attempted' = attempted \cup {"vnc"}
  /\ IF ok
     THEN /\ caught' = [caught EXCEPT !.vncKey = FALSE]
          /\ catchPc' = IF mcpPortLocal THEN "mcp" ELSE "delete"
     ELSE /\ catchPc' = "rethrow"
          /\ UNCHANGED caught
  /\ UNCHANGED <<boxes, dockerCall, dockerCalls, mcpPortLocal, propagated>>
  /\ UNCHANGED notCatch

CatchReleaseMcp(ok) ==
  /\ catchPc = "mcp"
  /\ attempted' = attempted \cup {"mcp"}
  /\ IF ok
     THEN /\ caught' = [caught EXCEPT !.mcpKey = FALSE]
          /\ catchPc' = "delete"
     ELSE /\ catchPc' = "rethrow"
          /\ UNCHANGED caught
  /\ UNCHANGED <<boxes, dockerCall, dockerCalls, mcpPortLocal, propagated>>
  /\ UNCHANGED notCatch

CatchDeleteSession(ok) ==
  /\ catchPc = "delete"
  /\ attempted' = attempted \cup {"delete"}
  /\ caught' = IF ok THEN [caught EXCEPT !.exists = FALSE] ELSE caught
  /\ catchPc' = "rethrow"
  /\ UNCHANGED <<boxes, dockerCall, dockerCalls, mcpPortLocal, propagated>>
  /\ UNCHANGED notCatch

\* throw error: the original failure goes to the queue.
CatchRethrow ==
  /\ catchPc = "rethrow"
  /\ propagated' = "original"
  /\ catchPc' = "done"
  /\ UNCHANGED <<boxes, dockerCall, dockerCalls, mcpPortLocal, caught, attempted>>
  /\ UNCHANGED notCatch

CatchNext ==
  \/ \E point \in ThrowPoints : CreateThrows(point)
  \/ \E ok \in BOOLEAN : CatchErrorStatus(ok)
  \/ \E ok \in BOOLEAN : CatchGetSession(ok)
  \/ \E fault \in BOOLEAN : CatchStop(fault)
  \/ \E fault \in BOOLEAN : CatchRemove(fault)
  \/ \E ok \in BOOLEAN : CatchReleaseVnc(ok)
  \/ \E ok \in BOOLEAN : CatchReleaseMcp(ok)
  \/ \E ok \in BOOLEAN : CatchDeleteSession(ok)
  \/ CatchRethrow

CatchSpec == Init /\ [][CatchNext]_vars

\* The cleanup steps a failed run owes: both container steps if a container
\* was created, the desktop port, the tool port if one was allocated, the
\* record.
CleanupOwed ==
  {"vnc", "delete"}
    \cup (IF caught.container THEN {"stop", "remove"} ELSE {})
    \cup (IF mcpPortLocal THEN {"mcp"} ELSE {})

\* C32: when a failed createSession run has left its catch block, every
\* cleanup step it owed was called and the error that left it is the
\* original failure.
C32_CleanupRunsAndOriginalErrorLeaves ==
  catchPc = "done" => CleanupOwed \subseteq attempted /\ propagated = "original"

\* A run that failed after its container ran has called all five cleanup
\* steps, one of which threw, and rejected with the original failure.
C32_CleanedUpAfterAgentFailure ==
  /\ catchPc = "done"
  /\ propagated = "original"
  /\ attempted = {"stop", "remove", "vnc", "mcp", "delete"}
  /\ dockerCall.op = "remove"
  /\ dockerCall.threw
  /\ ~caught.exists

\* ============================================ KeysSpec (SessionManager, keys)
\* The keys of one session id: createSession, the writers of the derived
\* keys, the expiry of each key, updateSession(id, patch) one store command
\* at a time and one deleteSession(id) call one store command at a time.

SessionCreated == indexed \/ delCall.pc # "idle"

\* SessionManager.createSession: setex of the record, sadd to the index.
KeyCreate ==
  /\ ~SessionCreated
  /\ sessKeys' = [sessKeys EXCEPT !["record"] = TRUE]
  /\ indexed' = TRUE
  /\ UNCHANGED <<recWorkerId, workerSets, delCall, updCall, updCalls>>
  /\ UNCHANGED notKeys

\* addSessionMessage, addSessionLog, storeSessionContext: the key is made if
\* it is not there, whether or not the record is.
KeyWriteDerived(k) ==
  /\ SessionCreated
  /\ ~sessKeys[k]
  /\ sessKeys' = [sessKeys EXCEPT ![k] = TRUE]
  /\ UNCHANGED <<recWorkerId, indexed, workerSets, delCall, updCall, updCalls>>
  /\ UNCHANGED notKeys

\* The expiry of a key is reached; the index and the worker sets have none.
KeyExpires(k) ==
  /\ sessKeys[k]
  /\ sessKeys' = [sessKeys EXCEPT ![k] = FALSE]
  /\ recWorkerId' = IF k = "record" THEN 0 ELSE recWorkerId
  /\ UNCHANGED <<indexed, workerSets, delCall, updCall, updCalls>>
  /\ UNCHANGED notKeys

\* updateSession(id, patch): getSession; null ends the call. The patch is a
\* status (0) or { workerId: w }.
UpdateGet(patch) ==
  /\ SessionCreated
  /\ updCall.pc = "idle"
  /\ updCalls < MaxUpdates
  /\ updCalls' = updCalls + 1
  /\ updCall' = IF sessKeys["record"]
                THEN [pc |-> "ttl", workerId |-> recWorkerId, patch |-> patch, ttl |-> FALSE]
                ELSE NoUpdateCall
  /\ UNCHANGED <<sessKeys, recWorkerId, indexed, workerSets, delCall>>
  /\ UNCHANGED notKeys

\* The rest of updateSession: redis.ttl; setex if ttl > 0; then, for a patch
\* with another workerId, srem from the old worker's set and sadd to the new.
UpdateStep ==
  /\ updCall.pc # "idle"
  /\ CASE updCall.pc = "ttl" ->
            /\ updCall' = [updCall EXCEPT !.pc = "setex", !.ttl = sessKeys["record"]]
            /\ UNCHANGED <<sessKeys, recWorkerId, workerSets>>
       [] updCall.pc = "setex" ->
            /\ IF updCall.ttl
               THEN /\ sessKeys' = [sessKeys EXCEPT !["record"] = TRUE]
                    /\ recWorkerId' =
                         IF updCall.patch # 0 THEN updCall.patch ELSE updCall.workerId
               ELSE UNCHANGED <<sessKeys, recWorkerId>>
            /\ updCall' = IF updCall.patch # 0 /\ updCall.patch # updCall.workerId
                          THEN [updCall EXCEPT !.pc = "srem"]
                          ELSE NoUpdateCall
            /\ UNCHANGED workerSets
       [] updCall.pc = "srem" ->
            /\ workerSets' = IF updCall.workerId # 0
                             THEN workerSets \ {updCall.workerId}
                             ELSE workerSets
            /\ updCall' = [updCall EXCEPT !.pc = "sadd"]
            /\ UNCHANGED <<sessKeys, recWorkerId>>
       [] updCall.pc = "sadd" ->
            /\ workerSets' = workerSets \cup {updCall.patch}
            /\ updCall' = NoUpdateCall
            /\ UNCHANGED <<sessKeys, recWorkerId>>
  /\ UNCHANGED <<indexed, delCall, updCalls>>
  /\ UNCHANGED notKeys

\* deleteSession(id): getSession; `if (!session) return false`.
DeleteGet ==
  /\ SessionCreated
  /\ delCall.pc = "idle"
  /\ delCall' = IF sessKeys["record"]
                THEN [pc |-> "del_record", workerId |-> recWorkerId]
                ELSE [pc |-> "returned", workerId |-> 0]
  /\ UNCHANGED <<sessKeys, recWorkerId, indexed, workerSets, updCall, updCalls>>
  /\ UNCHANGED notKeys

\* The rest of deleteSession: del of the record, srem from the index, srem
\* from the set of the worker the record named, del of the three derived keys.
DeleteStep ==
  /\ delCall.pc \notin {"idle", "returned"}
  /\ CASE delCall.pc = "del_record" ->
            /\ sessKeys' = [sessKeys EXCEPT !["record"] = FALSE]
            /\ recWorkerId' = 0
            /\ delCall' = [delCall EXCEPT !.pc = "srem_index"]
            /\ UNCHANGED <<indexed, workerSets>>
       [] delCall.pc = "srem_index" ->
            /\ indexed' = FALSE
            /\ delCall' = [delCall EXCEPT !.pc = IF delCall.workerId # 0
                                                 THEN "srem_worker" ELSE "del_messages"]
            /\ UNCHANGED <<sessKeys, recWorkerId, workerSets>>
       [] delCall.pc = "srem_worker" ->
            /\ workerSets' = workerSets \ {delCall.workerId}
            /\ delCall' = [delCall EXCEPT !.pc = "del_messages"]
            /\ UNCHANGED <<sessKeys, recWorkerId, indexed>>
       [] delCall.pc = "del_messages" ->
            /\ sessKeys' = [sessKeys EXCEPT !["messages"] = FALSE]
            /\ delCall' = [delCall EXCEPT !.pc = "del_logs"]
            /\ UNCHANGED <<recWorkerId, indexed, workerSets>>
       [] delCall.pc = "del_logs" ->
            /\ sessKeys' = [sessKeys EXCEPT !["logs"] = FALSE]
            /\ delCall' = [delCall EXCEPT !.pc = "del_context"]
            /\ UNCHANGED <<recWorkerId, indexed, workerSets>>
       [] delCall.pc = "del_context" ->
            /\ sessKeys' = [sessKeys EXCEPT !["context"] = FALSE]
            /\ delCall' = [delCall EXCEPT !.pc = "returned"]
            /\ UNCHANGED <<recWorkerId, indexed, workerSets>>
  /\ UNCHANGED <<updCall, updCalls>>
  /\ UNCHANGED notKeys

KeysNext ==
  \/ KeyCreate
  \/ \E k \in DerivedKeys : KeyWriteDerived(k)
  \/ \E k \in KeyNames : KeyExpires(k)
  \/ \E patch \in {0} \cup Workers : UpdateGet(patch)
  \/ UpdateStep
  \/ DeleteGet
  \/ DeleteStep

KeysSpec == Init /\ [][KeysNext]_vars

\* C33: when deleteSession(id) returns, whatever the record's state was when
\* it was called, none of the four keys of the session exists and id is in
\* neither sessions:index nor a sessions:by-worker set.
C33_DeleteRemovesEverything ==
  [][delCall.pc # "returned" /\ delCall'.pc = "returned"
     => /\ \A k \in KeyNames : ~sessKeys'[k]
        /\ ~indexed'
        /\ workerSets' = {}]_vars

\* deleteSession met a record that named a worker and has removed the record,
\* the index entry, the worker-set entry and the derived keys.
C33_DeletedLiveSession ==
  /\ delCall.pc = "returned"
  /\ delCall.workerId # 0
  /\ \A k \in KeyNames : ~sessKeys[k]
  /\ ~indexed
  /\ workerSets = {}

\* C38: once deleteSession(id) has returned, session:<id> does not exist,
\* whatever updateSession call was in flight when it ran.
C38_DeletedRecordStaysDeleted ==
  delCall.pc = "returned" => ~sessKeys["record"]

\* An updateSession call read the record, deleteSession then ran to its end,
\* and the call, whose redis.ttl found no key, is about to skip its setex.
C38_LateWriteSkipped ==
  /\ delCall.pc = "returned"
  /\ delCall.workerId # 0
  /\ updCall.pc = "setex"
  /\ ~updCall.ttl
  /\ ~sessKeys["record"]

\* ------------------------------------------------------------------- C34

\* C34: whenever the store has handled every command a process has sent on
\* its subscriber connection, the process is subscribed to the session's
\* channel exactly when its local subscriber set is not empty.
C34_SubscribedIffLocalSubscribers ==
  \A p \in Procs : subCmds[p] = <<>> => (listening[p] <=> subscribers[p] # {})

\* The first subscriber of a process has subscribed the channel.
C34_FirstSubscriberListening ==
  \E p \in Procs : subCmds[p] = <<>> /\ listening[p] /\ subscribers[p] # {}

\* ---------------------------------------------------------------------
\* SessionHandler.processMessage, one step per await, with the agent's
\* graph run inside it.
\* ---------------------------------------------------------------------

\* An event on the channel: its type, the message it was published for,
\* and who published it.
Event(type, m, by) == [type |-> type, msg |-> m, by |-> by]

Publish(events) == channel' = channel \o events

\* What each graph node emits when it runs through.
NodeEvents(node, m) ==
  CASE node = "process_input" -> <<Event("agent_thinking", m, "agent")>>
    [] node = "plan" -> <<Event("agent_thinking", m, "agent"), Event("agent_thinking", m, "agent")>>
    [] node = "execute" -> <<Event("agent_action", m, "agent"), Event("agent_action", m, "agent")>>
    [] node = "reflect" -> <<Event("agent_thinking", m, "agent")>>
    [] node = "respond" -> <<Event("agent_thinking", m, "agent"), Event("agent_response", m, "agent")>>

\* The nodes in the order graph.invoke runs them, one round of execute and
\* reflect.
GraphPath == <<"process_input", "plan", "execute", "reflect", "respond">>

RECURSIVE EventsThrough(_, _)
EventsThrough(done, m) ==
  IF done = 0 THEN <<>>
  ELSE EventsThrough(done - 1, m) \o NodeEvents(GraphPath[done], m)

\* onMessage: publish, then addSessionMessage; either may reject.
EmitOutcomes == {"ok", "publish_rejects", "store_rejects"}

RecordCreated ==
  /\ msgRecord = "none"
  /\ msgRecord' = "present"
  /\ UNCHANGED <<notMsg, msgAgent, channel, msgRun>>

RecordGone ==
  /\ msgRecord = "present"
  /\ msgRecord' = "gone"
  /\ UNCHANGED <<notMsg, msgAgent, channel, msgRun>>

AgentSet ==
  /\ msgRecord = "present"
  /\ msgAgent = "none"
  /\ msgAgent' = "held"
  /\ UNCHANGED <<notMsg, msgRecord, channel, msgRun>>

AgentDeleted ==
  /\ msgAgent = "held"
  /\ msgAgent' = "gone"
  /\ UNCHANGED <<notMsg, msgRecord, channel, msgRun>>

Throw(m, what) ==
  msgRun' = [msgRun EXCEPT ![m].pc = "catch", ![m].cause = what]

HandlerGetSession(m) ==
  /\ msgRecord # "none"
  /\ msgRun[m].pc = "queued"
  /\ IF msgRecord = "present"
       THEN msgRun' = [msgRun EXCEPT ![m].pc = "get_agent"]
       ELSE Throw(m, "Session not found")
  /\ UNCHANGED <<notMsg, msgRecord, msgAgent, channel>>

HandlerGetAgent(m) ==
  /\ msgRun[m].pc = "get_agent"
  /\ IF msgAgent = "held"
       THEN msgRun' = [msgRun EXCEPT ![m].pc = "publish_prompt"]
       ELSE Throw(m, "Agent not running")
  /\ UNCHANGED <<notMsg, msgRecord, msgAgent, channel>>

PromptSkipped(m, ok) ==
  /\ msgRun[m].pc = "publish_prompt"
  /\ msgRun' = [msgRun EXCEPT ![m].pc = "process_input"]
  /\ UNCHANGED <<notMsg, msgRecord, msgAgent, channel>>

HandlerPublishPrompt(m, ok) ==
  /\ msgRun[m].pc = "publish_prompt"
  /\ IF ok
       THEN /\ Publish(<<Event("user_prompt", m, "handler")>>)
            /\ msgRun' = [msgRun EXCEPT ![m].pc = "process_input"]
       ELSE /\ Throw(m, "publish")
            /\ UNCHANGED channel
  /\ UNCHANGED <<notMsg, msgRecord, msgAgent>>

\* agent.processMessage up to its catch: graph.invoke runs `done` nodes
\* through; it returns after the last one, and otherwise the next node
\* throws, or an emit of it rejects.
AgentGraphInvoke(m, done, outcome) ==
  /\ msgRun[m].pc = "process_input"
  /\ IF done = Len(GraphPath)
       THEN /\ outcome = "ok"
            /\ Publish(EventsThrough(done, m))
            /\ msgRun' = [msgRun EXCEPT ![m].pc = "returned"]
       ELSE /\ outcome # "ok"
            /\ Publish(EventsThrough(done, m) \o
                         (IF outcome = "store_rejects"
                            THEN <<Head(NodeEvents(GraphPath[done + 1], m))>>
                            ELSE <<>>))
            /\ msgRun' = [msgRun EXCEPT ![m].pc = "agent_catch"]
  /\ UNCHANGED <<notMsg, msgRecord, msgAgent>>

\* The catch of CodingAgent.processMessage emits one error event; if that
\* emit rejects, agent.processMessage rejects.
AgentCatch(m, outcome) ==
  /\ msgRun[m].pc = "agent_catch"
  /\ \/ /\ outcome = "ok"
        /\ Publish(<<Event("error", m, "agent")>>)
        /\ msgRun' = [msgRun EXCEPT ![m].pc = "returned"]
     \/ /\ outcome = "store_rejects"
        /\ Publish(<<Event("error", m, "agent")>>)
        /\ Throw(m, "store")
     \/ /\ outcome = "publish_rejects"
        /\ UNCHANGED channel
        /\ Throw(m, "publish")
  /\ UNCHANGED <<notMsg, msgRecord, msgAgent>>

HandlerReturns(m) ==
  /\ msgRun[m].pc = "returned"
  /\ msgRun' = [msgRun EXCEPT ![m].pc = "completed"]
  /\ UNCHANGED <<notMsg, msgRecord, msgAgent, channel>>

\* The handler's catch: publish one error event, rethrow.
HandlerCatch(m, ok) ==
  /\ msgRun[m].pc = "catch"
  /\ IF ok
       THEN /\ Publish(<<Event("error", m, "handler")>>)
            /\ msgRun' = [msgRun EXCEPT ![m].pc = "failed", ![m].rejected = msgRun[m].cause]
       ELSE /\ UNCHANGED channel
            /\ msgRun' = [msgRun EXCEPT ![m].pc = "failed", ![m].rejected = "publish"]
  /\ UNCHANGED <<notMsg, msgRecord, msgAgent>>

NotOf(m, event) == event.msg # m

\* The queue runs a failed job again while attempts remain; the new run's
\* events are counted from here.
JobRetried(m) ==
  /\ msgRun[m].pc = "failed"
  /\ msgRun[m].run < MaxRuns
  /\ msgRun' = [msgRun EXCEPT ![m] = [NoRun EXCEPT !.run = msgRun[m].run + 1]]
  /\ channel' = SelectSeq(channel, LAMBDA event : NotOf(m, event))
  /\ UNCHANGED <<notMsg, msgRecord, msgAgent>>

MessageNext ==
  \/ RecordCreated
  \/ RecordGone
  \/ AgentSet
  \/ AgentDeleted
  \/ \E m \in MessageJobs : HandlerGetSession(m)
  \/ \E m \in MessageJobs : HandlerGetAgent(m)
  \/ \E m \in MessageJobs, ok \in BOOLEAN : HandlerPublishPrompt(m, ok)
  \/ \E m \in MessageJobs, done \in 0..Len(GraphPath), outcome \in EmitOutcomes :
       AgentGraphInvoke(m, done, outcome)
  \/ \E m \in MessageJobs, outcome \in EmitOutcomes : AgentCatch(m, outcome)
  \/ \E m \in MessageJobs : HandlerReturns(m)
  \/ \E m \in MessageJobs, ok \in BOOLEAN : HandlerCatch(m, ok)
  \/ \E m \in MessageJobs : JobRetried(m)

MessageSpec == Init /\ [][MessageNext]_vars

\* The positions on the channel of the events of message m's current run.
EventsOf(m, type, by) ==
  {k \in DOMAIN channel :
     /\ channel[k].msg = m
     /\ channel[k].type = type
     /\ channel[k].by = by}

AgentEventsOf(m) ==
  {k \in DOMAIN channel :
     channel[k].msg = m /\ channel[k].by = "agent"}

LookupFailed(m) ==
  /\ msgRun[m].pc = "failed"
  /\ msgRun[m].cause \in {"Session not found", "Agent not running"}

PromptFirst(m) ==
  msgRun[m].pc = "completed" =>
    \A k \in AgentEventsOf(m) : \E j \in EventsOf(m, "user_prompt", "handler") : j < k

CreatesSomething(t) == CreateContainer(t) \/ CreateStart(t) \/ CreateAgentFault(t)

\* C37: a run of a create job after its first attempt, taken while the
\* session's record does not exist, creates no container, claims no tool
\* port and puts no agent in activeAgents.
C37_RetryWithoutRecordCreatesNothing ==
  [][\A t \in tasks :
       (/\ t.kind = "create_session"
        /\ t.att > 1
        /\ rec[t.sid] = NoRec
        /\ CreatesSomething(t))
       => UNCHANGED <<containers, mcpKeys, agents>>]_vars

\* A later run of a create job has left a container for a session that has
\* no record.
C37_ContainerWithoutRecord ==
  \E t \in tasks :
    /\ t.kind = "create_session"
    /\ t.att > 1
    /\ rec[t.sid] = NoRec
    /\ \E c \in containers : c.sid = t.sid

\* ---------------------------------------------------------------------
\* POST /session when one of its awaits rejects.
\* ---------------------------------------------------------------------

\* The awaits after createSession: allocateVncPort, updateSession,
\* queue.add, redis.incr.
PostAwaits == {"allocate", "update", "enqueue", "incr"}

\* The await the handler is at rejects: catch, set.status = 500, return.
PostThrows(r, at) ==
  /\ posts[r].pc = at
  /\ responses' = [responses EXCEPT ![r] = 500]
  /\ posts' = [posts EXCEPT ![r].pc = "done"]
  /\ UNCHANGED <<notPost, lifecycle, totalSessions>>

PostFaultNext ==
  \/ PostNext
  \/ \E r \in Requests, at \in PostAwaits : PostThrows(r, at)

PostFaultSpec == Init /\ [][PostFaultNext]_vars

\* C40: a request that has answered, and not with 201, has left no record
\* and no sessions:index entry of its session, and no desktop port key that
\* records its session.
C40_FailedPostLeavesNothing ==
  \A r \in Requests :
    posts[r].pc = "done" /\ responses[r] # 201 =>
      /\ ~Exists(rec[posts[r].sid])
      /\ posts[r].sid \notin index
      /\ \A p \in VncPorts : vncKeys[p] # posts[r].sid

\* A request was answered 500 after it had claimed a desktop port.
C40_Answered500AfterPort ==
  \E r \in Requests :
    /\ responses[r] = 500
    /\ posts[r].vncPort # 0

\* ---------------------------------------------------------------------
\* A socket opened while the agent emits events.
\* ---------------------------------------------------------------------

\* The positions among the socket's frames of the event a worker published
\* as its n-th message.
FramesOfEvent(n) ==
  {k \in DOMAIN frames : frames[k] = ChatMessage("agent_response", MsgText[n])}

\* C39: each event the agent emitted is sent at most once on the socket:
\* none arrives both through the subscription registered in open and in the
\* replay of the stored messages.
C39_EachEventAtMostOnce ==
  \A n \in 1..MaxChatMsgs : Cardinality(FramesOfEvent(n)) <= 1

\* The socket was opened and has replayed while an event was published to
\* it live.
C39_ReplayedWhileEmitting ==
  /\ openCall = "replayed"
  /\ ws = "open"
  /\ \E n \in 1..MaxChatMsgs : FramesOfEvent(n) # {}
  /\ replayed # <<>>

====
